---- MODULE Spec2Model ----
(***************************************************************************)
(* A model of nacl-proxy: the poll() based event registry (event.c), the   *)
(* per-connection state machine and the driver (proxy.c, main.c), the      *)
(* directional buffers (buf.c) and the framed crypto stream (netnacl.c).   *)
(*                                                                         *)
(* The C functions are written as operators that take the part of the      *)
(* program state they touch and return the state they leave, together with *)
(* their return value.  The result of every system call a handler makes is *)
(* an input of the handler (an "oracle" record) that the action draws with *)
(* \E, so each handler is one atomic action, as it is between two poll()   *)
(* calls of the single-threaded loop.                                      *)
(***************************************************************************)
EXTENDS Integers, Sequences, FiniteSets, TLC

VARIABLES
    mgr,        \* g_mgr: the event registry (event.c)
    conns,      \* the conn_t contexts, by allocation number
    fdt,        \* the process descriptor table
    errno,      \* the C library's errno
    trap,       \* what went wrong in C terms: failed assertions, bad closes, ...
    peer,       \* per connection and side: bytes read from / written to the peer
    g_run_flag, \* proxy.c g_run_flag
    loop,       \* where proxy_run / event_run_loop stands
    last,       \* the callback that ran last and what it returned
    frame,      \* the framed stream pair of SpecFrame
    cache       \* network.c: the cached server address, its time stamp, the clock

vars == <<mgr, conns, fdt, errno, trap, peer, g_run_flag, loop, last, frame, cache>>

---------------------------------------------------------------------------
(* Bounds of the model.  The two capacities are the program's constants    *)
(* scaled down so that "full" is reachable: MAX_EVENTS is 512 in event.h,  *)
(* BUF_SIZ is 16348 in buf.h.                                              *)

MAX_EVENTS == 4

BUF_SIZ == 2

\* contexts ever allocated by accept_callback
MaxConns == 1

\* bytes a peer ever sends on one socket: the stream is 1, 2, .., StreamLen
StreamLen == 2

\* descriptors poll() reports ready in one batch
MaxReady == 2

\* connections ever accepted where the peers stay silent
MaxAccepts == 2

---------------------------------------------------------------------------
(* Return codes.  errors.h is not among the sources; PROXY_ERR is -1, the  *)
(* value ASSERT_RET returns for the "invalid parameters" case that event.h *)
(* documents as PROXY_ERR; the others only need to be distinct and not 0.  *)

PROXY_SUCCESS == 0

PROXY_ERR == -1

PROXY_WOULD_BLOCK == 1

PROXY_DISCONNECT == 2

PROXY_MAX_EVENTS == 3

PROXY_INCOMPLETE_ACCEPT == 4

PROXY_CONNECT_ERR == 5

\* netnacl.h: enum { NN_DISCONNECT = -5, NN_CRYPTO_ERR, NN_WANT_READ,
\*                   NN_WANT_WRITE, NN_ERR, NN_SUCCESS }
NN_DISCONNECT == -5

NN_CRYPTO_ERR == -4

NN_WANT_READ == -3

NN_WANT_WRITE == -2

NN_ERR == -1

NN_SUCCESS == 0

\* used by netnacl.c and buf.c, declared in no header among the sources
NN_WOULD_BLOCK == -6

EXIT_SUCCESS == 0

EXIT_FAILURE == 1

\* errno values; EWOULDBLOCK is EAGAIN on Linux
EAGAIN == "EAGAIN"

EWOULDBLOCK == EAGAIN

ECONNABORTED == "ECONNABORTED"

EINPROGRESS == "EINPROGRESS"

EPIPE == "EPIPE"

ECONNRESET == "ECONNRESET"

EINTR == "EINTR"

EBADF == "EBADF"

EMFILE == "EMFILE"

ENOTCONN == "ENOTCONN"

\* poll(2) event bits, as sets
POLLIN == "POLLIN"

POLLOUT == "POLLOUT"

POLLERR == "POLLERR"

POLLHUP == "POLLHUP"

POLLNVAL == "POLLNVAL"

\* enum ProxySide
CLIENT == "CLIENT"

SERVER == "SERVER"

Sides == {CLIENT, SERVER}

Other(side) == IF side = CLIENT THEN SERVER ELSE CLIENT

\* NULL for a callback, a netnacl_t pointer or "nothing recorded"
NULL == "NULL"

\* user data of a registry entry: 0 is the NULL pointer, a positive number a
\* conn_t, CONFIG the config_t the listener's entry carries
NODATA == 0

CONFIG == -1

Min(S) == CHOOSE x \in S : \A y \in S : x <= y

ConnIds == 1..MaxConns

\* descriptors: 0..2 are the standard streams
MaxFd == 3 + 2 * MaxConns

Fds == 0..MaxFd

Stream == [i \in 1..StreamLen |-> i]

---------------------------------------------------------------------------
(* event.c: the registry.  pfds and events have MAX_EVENTS + 1 slots.      *)

Slots == 0..MAX_EVENTS

\* static event_manager_t g_mgr = {0}
MgrInit ==
    [pfds       |-> [i \in Slots |-> [fd |-> 0, events |-> {}, revents |-> {}]],
     events     |-> [i \in Slots |-> [fd |-> 0, data |-> NODATA, callback |-> NULL]],
     max_idx    |-> 0,
     num_events |-> 0]

get_idx_from_fd(m, efd) ==
    IF efd < 0 THEN -1
    ELSE LET hits == {i \in 0..(m.max_idx - 1) : m.pfds[i].fd = efd}
         IN  IF hits = {} THEN -1
             ELSE IF m.pfds[Min(hits)].fd # m.events[Min(hits)].fd THEN -1
             ELSE Min(hits)

\* event_add without the test of num_events against MAX_EVENTS
event_add_no_capacity(m, efd, events, data, callback) ==
    IF efd < 0 \/ events = {} \/ callback = NULL
    THEN [m |-> m, ret |-> -1]
    ELSE IF get_idx_from_fd(m, efd) > -1
    THEN [m |-> m, ret |-> PROXY_ERR]
    ELSE LET holes == {i \in 0..(m.max_idx - 1) : m.pfds[i].fd = -1}
             insert_idx == IF holes = {} THEN m.max_idx ELSE Min(holes)
         IN  [m |-> [m EXCEPT
                       !.max_idx = IF holes = {} THEN @ + 1 ELSE @,
                       !.num_events = @ + 1,
                       !.pfds[insert_idx] = [@ EXCEPT !.fd = efd, !.events = events],
                       !.events[insert_idx] =
                           [fd |-> efd, data |-> data, callback |-> callback]],
              ret |-> PROXY_SUCCESS]

\* event_add without the look-up of the descriptor among the entries
event_add_unchecked(m, efd, events, data, callback) ==
    IF efd < 0 \/ events = {} \/ callback = NULL
    THEN [m |-> m, ret |-> -1]
    ELSE IF m.num_events = MAX_EVENTS
    THEN [m |-> m, ret |-> PROXY_MAX_EVENTS]
    ELSE LET holes == {i \in 0..(m.max_idx - 1) : m.pfds[i].fd = -1}
             insert_idx == IF holes = {} THEN m.max_idx ELSE Min(holes)
         IN  [m |-> [m EXCEPT
                       !.max_idx = IF holes = {} THEN @ + 1 ELSE @,
                       !.num_events = @ + 1,
                       !.pfds[insert_idx] = [@ EXCEPT !.fd = efd, !.events = events],
                       !.events[insert_idx] =
                           [fd |-> efd, data |-> data, callback |-> callback]],
              ret |-> PROXY_SUCCESS]

event_add(m, efd, events, data, callback) ==
    IF efd < 0 \/ events = {} \/ callback = NULL
    THEN [m |-> m, ret |-> -1]
    ELSE IF get_idx_from_fd(m, efd) > -1
    THEN [m |-> m, ret |-> PROXY_ERR]
    ELSE IF m.num_events = MAX_EVENTS
    THEN [m |-> m, ret |-> PROXY_MAX_EVENTS]
    ELSE LET holes == {i \in 0..(m.max_idx - 1) : m.pfds[i].fd = -1}
             insert_idx == IF holes = {} THEN m.max_idx ELSE Min(holes)
         IN  [m |-> [m EXCEPT
                       !.max_idx = IF holes = {} THEN @ + 1 ELSE @,
                       !.num_events = @ + 1,
                       !.pfds[insert_idx] = [@ EXCEPT !.fd = efd, !.events = events],
                       !.events[insert_idx] =
                           [fd |-> efd, data |-> data, callback |-> callback]],
              ret |-> PROXY_SUCCESS]

event_modify(m, efd, events) ==
    IF efd < 0 \/ events = {}
    THEN [m |-> m, ret |-> -1]
    ELSE LET event_idx == get_idx_from_fd(m, efd)
         IN  IF event_idx = -1
             THEN [m |-> m, ret |-> PROXY_ERR]
             ELSE [m |-> [m EXCEPT
                            !.pfds[event_idx] =
                                [fd |-> efd, events |-> events, revents |-> {}],
                            !.events[event_idx].fd = efd],
                   ret |-> PROXY_SUCCESS]

\* event_remove leaving revents of the slot as poll() last wrote it
event_remove_keeps_revents(m, efd) ==
    IF efd < 0
    THEN [m |-> m, ret |-> -1]
    ELSE LET event_idx == get_idx_from_fd(m, efd)
         IN  IF event_idx = -1
             THEN [m |-> m, ret |-> PROXY_ERR]
             ELSE [m |-> [m EXCEPT
                            !.pfds[event_idx] = [@ EXCEPT !.fd = -1, !.events = {}],
                            !.events[event_idx] =
                                [fd |-> -1, data |-> NODATA, callback |-> NULL],
                            !.max_idx = IF event_idx = @ - 1 THEN @ - 1 ELSE @,
                            !.num_events = @ - 1],
                   ret |-> PROXY_SUCCESS]

event_remove(m, efd) ==
    IF efd < 0
    THEN [m |-> m, ret |-> -1]
    ELSE LET event_idx == get_idx_from_fd(m, efd)
         IN  IF event_idx = -1
             THEN [m |-> m, ret |-> PROXY_ERR]
             ELSE [m |-> [m EXCEPT
                            !.pfds[event_idx] =
                                [fd |-> -1, events |-> {}, revents |-> {}],
                            !.events[event_idx] =
                                [fd |-> -1, data |-> NODATA, callback |-> NULL],
                            !.max_idx = IF event_idx = @ - 1 THEN @ - 1 ELSE @,
                            !.num_events = @ - 1],
                   ret |-> PROXY_SUCCESS]

---------------------------------------------------------------------------
(* The program state the callbacks work on, as one record S:               *)
(*   mgr, conns, fdt, errno, trap, peer  (the variables of those names)    *)
(*   ev   what the running callback did, kept in the variable last         *)
(*        (ev.add: what add_connection_events returned to                  *)
(*        pending_connect_callback; ev.dropped: a slot reported ready      *)
(*        later in the batch is no longer ready after the callback;        *)
(*        ev.rxret, ev.txret: what buf_recv and buf_send returned)         *)
(* conn_t is [alloc, net, send_buf, ref]: net[CLIENT] is p_conn->client,   *)
(* send_buf[CLIENT] is p_conn->client_send_buf (named by destination).     *)

\* calloc(1, sizeof(conn_t)): every field zero
ZeroConn ==
    [alloc    |-> "live",
     net      |-> [s \in Sides |-> [sock_fd |-> 0, b_encrypted |-> FALSE, netnacl |-> NULL]],
     send_buf |-> [s \in Sides |-> [data |-> <<>>, read_pos |-> 0]],
     ref      |-> 0]

NoConn == [ZeroConn EXCEPT !.alloc = "none"]

NoPeer == [s \in Sides |-> [rd |-> 0, wr |-> <<>>]]

NoEv == [cb |-> NULL, c |-> NODATA, side |-> NULL, acc |-> NULL, hs |-> NULL,
         rx |-> NULL, tx |-> NULL, add |-> NULL, closed |-> FALSE, dropped |-> FALSE,
         rxret |-> NULL, txret |-> NULL, ret |-> 0]

Trap(S, what) == [S EXCEPT !.trap = @ \cup {what}]

Size(buf) == Len(buf.data)

\* close(2): the descriptor becomes free; closing one that is not open fails
\* with EBADF, closing a standard stream is recorded
close(S, fd) ==
    IF fd \notin DOMAIN S.fdt \/ S.fdt[fd] = "free"
    THEN [Trap(S, "close_EBADF") EXCEPT !.errno = EBADF]
    ELSE IF S.fdt[fd] = "stdio"
    THEN [Trap(S, "close_stdio") EXCEPT !.fdt[fd] = "free"]
    ELSE [S EXCEPT !.fdt[fd] = "free"]

\* the lowest free descriptor, as socket() and accept() return it
lowest_free(S) ==
    LET free == {f \in DOMAIN S.fdt : S.fdt[f] = "free"}
    IN  IF free = {} THEN -1 ELSE Min(free)

\* proxy.c free_connection
free_connection(S, c) ==
    IF c = NODATA \/ c = CONFIG
    THEN (IF c = CONFIG THEN Trap(S, "free_config") ELSE S)
    ELSE IF S.conns[c].alloc # "live"
    THEN Trap(S, "use_after_free")
    ELSE IF 1 >= S.conns[c].ref
    THEN [S EXCEPT !.conns[c].alloc = "freed",
                   !.conns[c].net[CLIENT].netnacl = NULL,
                   !.conns[c].net[SERVER].netnacl = NULL]
    ELSE [S EXCEPT !.conns[c].ref = @ - 1]

\* close_connection closing an endpoint without removing its registry entry
close_side_keeps_entry(S, c, side) ==
    LET fd == S.conns[c].net[side].sock_fd
    IN  IF fd # -1
        THEN [close(S, fd) EXCEPT !.conns[c].net[side].sock_fd = -1]
        ELSE S

\* one "if (-1 != sock_fd) { event_remove; close; sock_fd = -1; }" of close_connection
close_side(S, c, side) ==
    LET fd == S.conns[c].net[side].sock_fd
    IN  IF fd # -1
        THEN [close([S EXCEPT !.mgr = event_remove(S.mgr, fd).m], fd)
                 EXCEPT !.conns[c].net[side].sock_fd = -1]
        ELSE S

\* proxy.c close_connection
close_connection(S, c) ==
    LET S1 == close_side(S, c, CLIENT)
        S2 == close_side(S1, c, SERVER)
        S3 == [S2 EXCEPT !.conns[c].ref = 0, !.ev.closed = TRUE]
    IN  free_connection(S3, c)

---------------------------------------------------------------------------
(* buf.c.  One call of buf_recv or buf_send is a loop of socket calls; the *)
(* oracle gives the number of bytes the calls move before one of them ends *)
(* the loop (rk, sk) and the call that ends it (rend, send).               *)

\* how recv(2) on a non-blocking socket ends a loop: end-of-stream, or -1 and errno
RawRecvEnds ==
    {[recvd |-> 0, err |-> NULL, what |-> "eof"],
     [recvd |-> -1, err |-> EAGAIN, what |-> "EAGAIN"],
     [recvd |-> -1, err |-> ECONNRESET, what |-> "ECONNRESET"]}

\* how netnacl_recv ends a loop: 0 for NN_DISCONNECT, NN_WOULD_BLOCK and NN_ERR
\* from a failed recv (errno set by it), NN_CRYPTO_ERR from decrypt_ciphertext
\* (errno left as it was)
NnRecvEnds ==
    {[recvd |-> 0, err |-> NULL, what |-> "eof"],
     [recvd |-> NN_WOULD_BLOCK, err |-> EAGAIN, what |-> "NN_WOULD_BLOCK"],
     [recvd |-> NN_ERR, err |-> ECONNRESET, what |-> "NN_ERR"],
     [recvd |-> NN_CRYPTO_ERR, err |-> NULL, what |-> "NN_CRYPTO_ERR"]}

RawSendEnds ==
    {[sent |-> -1, err |-> EAGAIN, what |-> "EAGAIN"],
     [sent |-> -1, err |-> EPIPE, what |-> "EPIPE"],
     [sent |-> -1, err |-> ENOTCONN, what |-> "ENOTCONN"]}

NnSendEnds ==
    {[sent |-> NN_WOULD_BLOCK, err |-> EAGAIN, what |-> "NN_WOULD_BLOCK"],
     [sent |-> NN_ERR, err |-> EPIPE, what |-> "NN_ERR_EPIPE"],
     [sent |-> NN_ERR, err |-> ENOTCONN, what |-> "NN_ERR"]}

SetErrno(S, e) == IF e = NULL THEN S ELSE [S EXCEPT !.errno = e]

\* buf_recv(p_net, p_buf, 0) with p_net = side's endpoint, p_buf = the buffer
\* bound for the other side
buf_recv(S, c, side, o) ==
    LET dst   == Other(side)
        buf   == S.conns[c].send_buf[dst]
        rd    == S.peer[c][side].rd
        room  == BUF_SIZ - Size(buf)
        k     == Min({o.rk, room, StreamLen - rd})
        S1    == [S EXCEPT
                    !.conns[c].send_buf[dst].data = @ \o SubSeq(Stream, rd + 1, rd + k),
                    !.peer[c][side].rd = @ + k]
        S2    == SetErrno(S1, o.rend.err)
        recvd == o.rend.recvd
    IN  IF buf.read_pos # 0 \/ Size(buf) # 0
        THEN [S |-> Trap(S, "assert_buf_recv"), ret |-> -1]
        ELSE IF S.conns[c].net[side].b_encrypted /\ S.conns[c].net[side].netnacl = NULL
        THEN [S |-> [Trap(S, "assert_netnacl_recv") EXCEPT !.ev.rx = "netnacl_null"],
              ret |-> IF S.errno = EWOULDBLOCK \/ S.errno = EAGAIN
                      THEN PROXY_WOULD_BLOCK ELSE PROXY_ERR]
        ELSE IF Size(S1.conns[c].send_buf[dst]) >= BUF_SIZ
        THEN [S |-> [S1 EXCEPT !.ev.rx = "full"], ret |-> PROXY_SUCCESS]
        ELSE IF recvd = 0
        THEN [S |-> [S2 EXCEPT !.ev.rx = o.rend.what], ret |-> PROXY_DISCONNECT]
        ELSE IF recvd = NN_WOULD_BLOCK \/ S2.errno = EWOULDBLOCK \/ S2.errno = EAGAIN
        THEN [S |-> [S2 EXCEPT !.ev.rx = o.rend.what],
              ret |-> IF Size(S2.conns[c].send_buf[dst]) = 0
                      THEN PROXY_WOULD_BLOCK ELSE PROXY_SUCCESS]
        ELSE [S |-> [S2 EXCEPT !.ev.rx = o.rend.what], ret |-> PROXY_ERR]

\* buf_send lines 26-46 on an endpoint that handle_recv closed earlier in the
\* same callback: netnacl_send finds p_nn NULL (ASSERT_RET, netnacl.c 176:
\* -1 with errno as it was), send finds the descriptor -1 (EBADF)
send_on_closed(S, c, side) ==
    IF S.conns[c].net[side].b_encrypted
    THEN LET S1 == [Trap(S, "assert_netnacl_send") EXCEPT !.ev.tx = "netnacl_null"]
         IN  IF S.errno = EWOULDBLOCK \/ S.errno = EAGAIN
             THEN [S |-> S1, ret |-> PROXY_WOULD_BLOCK]
             ELSE IF S.errno = EPIPE \/ S.errno = ECONNRESET
             THEN [S |-> S1, ret |-> PROXY_DISCONNECT]
             ELSE [S |-> S1, ret |-> PROXY_ERR]
    ELSE [S |-> [S EXCEPT !.errno = EBADF, !.ev.tx = "EBADF"], ret |-> PROXY_ERR]

\* the endpoint buf_send is given has no socket to send on
SendClosed(S, c, side) ==
    IF S.conns[c].net[side].b_encrypted
    THEN S.conns[c].net[side].netnacl = NULL
    ELSE S.conns[c].net[side].sock_fd = -1

\* buf_send with the retry starting again at the head of the buffer instead of
\* at read_pos
buf_send_from_head(S, c, side, o) ==
    LET buf  == S.conns[c].send_buf[side]
        k    == Min({o.sk, Size(buf) - buf.read_pos})
        S1   == [S EXCEPT
                   !.conns[c].send_buf[side].read_pos = @ + k,
                   !.peer[c][side].wr = @ \o SubSeq(buf.data, 1, k)]
        S2   == SetErrno(S1, o.send.err)
    IN  IF Size(buf) = 0 \/ buf.read_pos = Size(buf)
        THEN [S |-> Trap(S, "assert_buf_send"), ret |-> -1]
        ELSE IF SendClosed(S, c, side)
        THEN send_on_closed(S, c, side)
        ELSE IF buf.read_pos + k >= Size(buf)
        THEN [S |-> [S1 EXCEPT !.conns[c].send_buf[side] = [data |-> <<>>, read_pos |-> 0],
                               !.ev.tx = "sent"],
              ret |-> PROXY_SUCCESS]
        ELSE [S |-> [S2 EXCEPT !.ev.tx = o.send.what], ret |-> PROXY_WOULD_BLOCK]

\* buf_send with the reset after a complete send clearing size only, read_pos
\* left where the last send put it
buf_send_keeps_read_pos(S, c, side, o) ==
    LET buf  == S.conns[c].send_buf[side]
        k    == Min({o.sk, Size(buf) - buf.read_pos})
        S1   == [S EXCEPT
                   !.conns[c].send_buf[side].read_pos = @ + k,
                   !.peer[c][side].wr =
                       @ \o SubSeq(buf.data, buf.read_pos + 1, buf.read_pos + k)]
        S2   == SetErrno(S1, o.send.err)
    IN  IF Size(buf) = 0 \/ buf.read_pos = Size(buf)
        THEN [S |-> Trap(S, "assert_buf_send"), ret |-> -1]
        ELSE IF SendClosed(S, c, side)
        THEN send_on_closed(S, c, side)
        ELSE IF buf.read_pos + k >= Size(buf)
        THEN [S |-> [S1 EXCEPT !.conns[c].send_buf[side].data = <<>>, !.ev.tx = "sent"],
              ret |-> PROXY_SUCCESS]
        ELSE [S |-> [S2 EXCEPT !.ev.tx = o.send.what], ret |-> PROXY_WOULD_BLOCK]

\* buf_send(p_net, p_buf, MSG_NOSIGNAL) with p_net = side's endpoint and
\* p_buf = the buffer bound for side
buf_send(S, c, side, o) ==
    LET buf  == S.conns[c].send_buf[side]
        k    == Min({o.sk, Size(buf) - buf.read_pos})
        S1   == [S EXCEPT
                   !.conns[c].send_buf[side].read_pos = @ + k,
                   !.peer[c][side].wr =
                       @ \o SubSeq(buf.data, buf.read_pos + 1, buf.read_pos + k)]
        S2   == SetErrno(S1, o.send.err)
        sent == o.send.sent
    IN  IF Size(buf) = 0 \/ buf.read_pos = Size(buf)
        THEN [S |-> Trap(S, "assert_buf_send"), ret |-> -1]
        ELSE IF SendClosed(S, c, side)
        THEN send_on_closed(S, c, side)
        ELSE IF buf.read_pos + k >= Size(buf)
        THEN [S |-> [S1 EXCEPT !.conns[c].send_buf[side] = [data |-> <<>>, read_pos |-> 0],
                               !.ev.tx = "sent"],
              ret |-> PROXY_SUCCESS]
        ELSE IF sent = NN_WOULD_BLOCK \/ S2.errno = EWOULDBLOCK \/ S2.errno = EAGAIN
        THEN [S |-> [S2 EXCEPT !.ev.tx = o.send.what], ret |-> PROXY_WOULD_BLOCK]
        ELSE IF S2.errno = EPIPE \/ S2.errno = ECONNRESET
        THEN [S |-> [S2 EXCEPT !.ev.tx = o.send.what], ret |-> PROXY_DISCONNECT]
        ELSE [S |-> [S2 EXCEPT !.ev.tx = o.send.what], ret |-> PROXY_ERR]

---------------------------------------------------------------------------
(* proxy.c: the forwarding callback.                                       *)

WithMgr(S, r) == [S |-> [S EXCEPT !.mgr = r.m], ret |-> r.ret]

\* the name of a buffer operation's return value, for ev.rxret and ev.txret
RetName(ret) ==
    IF ret = PROXY_SUCCESS THEN "PROXY_SUCCESS"
    ELSE IF ret = PROXY_WOULD_BLOCK THEN "PROXY_WOULD_BLOCK"
    ELSE IF ret = PROXY_DISCONNECT THEN "PROXY_DISCONNECT"
    ELSE "PROXY_ERR"

RecvReturned(r) == [r EXCEPT !.S.ev.rxret = RetName(r.ret)]

SendReturned(r) == [r EXCEPT !.S.ev.txret = RetName(r.ret)]

\* handle_recv lines 467-475: this side disconnected with bytes received
recv_half_close(S, c, side) ==
    LET fd == S.conns[c].net[side].sock_fd
        S1 == close([S EXCEPT !.mgr = event_remove(S.mgr, fd).m], fd)
    IN  [S1 EXCEPT !.conns[c].net[side].sock_fd = -1,
                   !.conns[c].net[side].netnacl =
                       IF S.conns[c].net[side].b_encrypted THEN NULL ELSE @]

\* handle_recv receiving also while the destination buffer still holds data
handle_recv_no_backpressure(S, c, side, o) ==
    LET dst    == Other(side)
        mod_fd == S.conns[c].net[dst].sock_fd
    IN
        LET r   == RecvReturned(buf_recv(S, c, side, o))
            err == r.ret
        IN  IF \/ err = PROXY_SUCCESS
               \/ (err = PROXY_DISCONNECT /\ Size(r.S.conns[c].send_buf[dst]) # 0)
            THEN LET S1 == IF err = PROXY_DISCONNECT
                           THEN recv_half_close(r.S, c, side) ELSE r.S
                 IN  IF mod_fd = -1
                     THEN [S |-> close_connection(S1, c), ret |-> PROXY_DISCONNECT]
                     ELSE WithMgr(S1, event_modify(S1.mgr, mod_fd, {POLLIN, POLLOUT}))
            ELSE IF err = PROXY_WOULD_BLOCK
            THEN [S |-> r.S, ret |-> PROXY_SUCCESS]
            ELSE [S |-> close_connection(r.S, c), ret |-> err]

handle_recv(S, c, side, o) ==
    LET dst    == Other(side)
        mod_fd == S.conns[c].net[dst].sock_fd
    IN  IF Size(S.conns[c].send_buf[dst]) # 0
        THEN [S |-> S, ret |-> PROXY_SUCCESS]
        ELSE
        LET r   == RecvReturned(buf_recv(S, c, side, o))
            err == r.ret
        IN  IF \/ err = PROXY_SUCCESS
               \/ (err = PROXY_DISCONNECT /\ Size(r.S.conns[c].send_buf[dst]) # 0)
            THEN LET S1 == IF err = PROXY_DISCONNECT
                           THEN recv_half_close(r.S, c, side) ELSE r.S
                 IN  IF mod_fd = -1
                     THEN [S |-> close_connection(S1, c), ret |-> PROXY_DISCONNECT]
                     ELSE WithMgr(S1, event_modify(S1.mgr, mod_fd, {POLLIN, POLLOUT}))
            ELSE IF err = PROXY_WOULD_BLOCK
            THEN [S |-> r.S, ret |-> PROXY_SUCCESS]
            ELSE [S |-> close_connection(r.S, c), ret |-> err]

\* handle_send leaving the events of its endpoint as they are after a full drain
handle_send_keeps_pollout(S, c, side, o) ==
    LET r   == SendReturned(buf_send(S, c, side, o))
        err == r.ret
    IN  IF err = 0
        THEN IF r.S.conns[c].net[Other(side)].sock_fd = -1
             THEN [S |-> close_connection(r.S, c), ret |-> PROXY_DISCONNECT]
             ELSE [S |-> r.S, ret |-> PROXY_SUCCESS]
        ELSE IF err = PROXY_WOULD_BLOCK
        THEN [S |-> r.S, ret |-> PROXY_SUCCESS]
        ELSE [S |-> close_connection(r.S, c), ret |-> err]

\* handle_send going back to readability after a full drain whether or not the
\* opposite endpoint is closed
handle_send_drain_keeps_open(S, c, side, o) ==
    LET r   == SendReturned(buf_send(S, c, side, o))
        err == r.ret
    IN  IF err = 0
        THEN WithMgr(r.S, event_modify(r.S.mgr, r.S.conns[c].net[side].sock_fd,
                                       {POLLIN}))
        ELSE IF err = PROXY_WOULD_BLOCK
        THEN [S |-> r.S, ret |-> PROXY_SUCCESS]
        ELSE [S |-> close_connection(r.S, c), ret |-> err]

handle_send(S, c, side, o) ==
    LET r   == SendReturned(buf_send(S, c, side, o))
        err == r.ret
    IN  IF err = 0
        THEN IF r.S.conns[c].net[Other(side)].sock_fd = -1
             THEN [S |-> close_connection(r.S, c), ret |-> PROXY_DISCONNECT]
             ELSE WithMgr(r.S, event_modify(r.S.mgr, r.S.conns[c].net[side].sock_fd,
                                            {POLLIN}))
        ELSE IF err = PROXY_WOULD_BLOCK
        THEN [S |-> r.S, ret |-> PROXY_SUCCESS]
        ELSE [S |-> close_connection(r.S, c), ret |-> err]

\* the side of p_conn that conn_fd is, as conn_callback and handshake_callback
\* find it; NULL when it is neither
side_of(S, c, conn_fd) ==
    IF conn_fd = S.conns[c].net[CLIENT].sock_fd THEN CLIENT
    ELSE IF conn_fd = S.conns[c].net[SERVER].sock_fd THEN SERVER
    ELSE NULL

\* a callback handed a conn_t that was freed reads freed memory
Deref(S, c) == IF S.conns[c].alloc = "live" THEN S ELSE Trap(S, "use_after_free")

conn_callback(S0, conn_fd, revents, c, o) ==
    LET S == [Deref(S0, c) EXCEPT !.ev.cb = "conn_callback", !.ev.c = c,
                                  !.ev.side = side_of(S0, c, conn_fd)]
    IN  IF POLLNVAL \in revents
        THEN [S |-> S, ret |-> PROXY_ERR]
        ELSE IF {POLLERR, POLLHUP} \cap revents # {}
        THEN [S |-> close_connection(S, c), ret |-> PROXY_SUCCESS]
        ELSE IF side_of(S, c, conn_fd) = NULL
        THEN [S |-> S, ret |-> PROXY_ERR]
        ELSE
        LET side == side_of(S, c, conn_fd)
            r1   == IF POLLIN \in revents
                    THEN handle_recv(S, c, side, o) ELSE [S |-> S, ret |-> 0]
            r2   == IF POLLOUT \in revents /\ r1.ret = 0
                    THEN handle_send(r1.S, c, side, o) ELSE r1
        IN  [S |-> r2.S, ret |-> IF r2.ret = PROXY_DISCONNECT THEN PROXY_SUCCESS ELSE r2.ret]

---------------------------------------------------------------------------
(* proxy.c and netnacl.c: the handshake.  proxy.c calls netnacl_create and *)
(* then netnacl_wrap on the created state; netnacl.c has both in its       *)
(* netnacl_wrap: the allocation and key pair (lines 103-109) and the key   *)
(* exchange (lines 111-125).                                               *)

\* netnacl.c lines 103-109: calloc and crypto_box_keypair
netnacl_create(S, c, side, o) ==
    IF o.create_ok
    THEN [S EXCEPT !.conns[c].net[side].netnacl = "netnacl_t"]
    ELSE S

\* netnacl.c lines 111-125: the own key is sent and the peer's key received
\* with one send and one recv of crypto_box_PUBLICKEYBYTES each; anything but
\* the whole key from both is NN_ERR
netnacl_wrap(S, c, side, o) ==
    IF o.wsend # "ok"
    THEN [S |-> SetErrno(S, IF o.wsend = "short" THEN NULL ELSE o.wsend), ret |-> NN_ERR]
    ELSE IF o.wrecv # "ok"
    THEN [S |-> SetErrno(S, IF o.wrecv \in {"short", "eof"} THEN NULL ELSE o.wrecv),
          ret |-> NN_ERR]
    ELSE [S |-> S, ret |-> NN_SUCCESS]

do_handshake(S, c, side, o) ==
    LET events == IF 0 < Size(S.conns[c].send_buf[side]) THEN {POLLOUT} ELSE {POLLIN}
        S1     == IF S.conns[c].net[side].netnacl = NULL
                  THEN netnacl_create(S, c, side, o) ELSE S
        fd     == S.conns[c].net[side].sock_fd
    IN  IF ~S.conns[c].net[side].b_encrypted
        THEN [S |-> Trap(S, "assert_do_handshake"), ret |-> -1]
        ELSE IF S1.conns[c].net[side].netnacl = NULL
        THEN [S |-> [S1 EXCEPT !.ev.hs = "create_failed"], ret |-> PROXY_ERR]
        ELSE
        LET w   == netnacl_wrap(S1, c, side, o)
            S2  == [w.S EXCEPT !.ev.hs = IF w.ret = NN_SUCCESS THEN "ok"
                                          ELSE IF o.wsend # "ok" THEN "send_failed"
                                          ELSE IF o.wrecv = EAGAIN THEN "recv_EAGAIN"
                                          ELSE "recv_failed"]
            err == w.ret
        IN  IF err = NN_SUCCESS
            THEN WithMgr(S2, event_add(event_remove(S2.mgr, fd).m, fd, events, c,
                                       "conn_callback"))
            ELSE IF err = NN_WANT_READ
            THEN WithMgr(S2, event_modify(S2.mgr, fd, {POLLIN}))
            ELSE IF err = NN_WANT_WRITE
            THEN WithMgr(S2, event_modify(S2.mgr, fd, {POLLOUT}))
            ELSE [S |-> S2, ret |-> err]

handshake_callback(S0, conn_fd, revents, c, o) ==
    LET S == [Deref(S0, c) EXCEPT !.ev.cb = "handshake_callback", !.ev.c = c,
                                  !.ev.side = side_of(S0, c, conn_fd)]
    IN  IF {POLLERR, POLLHUP, POLLNVAL} \cap revents # {}
        THEN [S |-> close_connection([S EXCEPT !.ev.hs = "revents"], c), ret |-> PROXY_ERR]
        ELSE
        LET r == IF side_of(S, c, conn_fd) = NULL
                 THEN [S |-> S, ret |-> PROXY_ERR]
                 ELSE do_handshake(S, c, side_of(S, c, conn_fd), o)
        IN  IF r.ret # 0
            THEN [S   |-> close_connection(r.S, c),
                  ret |-> IF r.ret = NN_ERR THEN PROXY_SUCCESS ELSE r.ret]
            ELSE r

\* add_connection_events registering every endpoint under conn_callback,
\* encrypted or not
add_connection_events_no_handshake(S, c) ==
    LET cfd == S.conns[c].net[CLIENT].sock_fd
        sfd == S.conns[c].net[SERVER].sock_fd
        r1  == event_add(S.mgr, cfd, {POLLIN}, c, "conn_callback")
        r2  == event_add(r1.m, sfd, {POLLIN}, c, "conn_callback")
    IN  IF cfd < 0 \/ sfd < 0
        THEN [S |-> Trap(S, "assert_add_connection_events"), ret |-> -1]
        ELSE IF r1.ret # 0
        THEN [S |-> S, ret |-> r1.ret]
        ELSE IF r2.ret # 0
        THEN [S   |-> [S EXCEPT !.mgr = event_remove(r2.m, cfd).m, !.conns[c].ref = @ + 1],
              ret |-> r2.ret]
        ELSE [S |-> [S EXCEPT !.mgr = r2.m, !.conns[c].ref = @ + 2], ret |-> 0]

add_connection_events(S, c) ==
    LET cfd == S.conns[c].net[CLIENT].sock_fd
        sfd == S.conns[c].net[SERVER].sock_fd
        r1  == IF S.conns[c].net[CLIENT].b_encrypted
               THEN event_add(S.mgr, cfd, {POLLOUT}, c, "handshake_callback")
               ELSE event_add(S.mgr, cfd, {POLLIN}, c, "conn_callback")
        r2  == IF S.conns[c].net[SERVER].b_encrypted
               THEN event_add(r1.m, sfd, {POLLOUT}, c, "handshake_callback")
               ELSE event_add(r1.m, sfd, {POLLIN}, c, "conn_callback")
    IN  IF cfd < 0 \/ sfd < 0
        THEN [S |-> Trap(S, "assert_add_connection_events"), ret |-> -1]
        ELSE IF r1.ret # 0
        THEN [S |-> S, ret |-> r1.ret]
        ELSE IF r2.ret # 0
        THEN [S   |-> [S EXCEPT !.mgr = event_remove(r2.m, cfd).m, !.conns[c].ref = @ + 1],
              ret |-> r2.ret]
        ELSE [S |-> [S EXCEPT !.mgr = r2.m, !.conns[c].ref = @ + 2], ret |-> 0]

pending_connect_callback(S0, conn_fd, revents, c, o) ==
    LET S == [Deref(S0, c) EXCEPT !.ev.cb = "pending_connect_callback", !.ev.c = c,
                                  !.ev.side = SERVER]
    IN  IF S.conns[c].net[SERVER].sock_fd # conn_fd
        THEN [S |-> Trap(S, "assert_pending_connect"), ret |-> -1]
        ELSE IF POLLNVAL \in revents
        THEN [S |-> close_connection(S, c), ret |-> PROXY_SUCCESS]
        ELSE IF {POLLERR, POLLHUP, POLLOUT} \cap revents # {}
        THEN IF o.so_error = "getsockopt_failed"
             THEN [S |-> close_connection([S EXCEPT !.errno = EBADF], c), ret |-> PROXY_ERR]
             ELSE IF o.so_error # "0"
             THEN [S |-> close_connection(S, c), ret |-> PROXY_SUCCESS]
             ELSE LET r == add_connection_events(
                               [S EXCEPT !.mgr = event_remove(S.mgr, conn_fd).m], c)
                  IN  IF r.ret # 0
                      THEN [S   |-> close_connection(
                                        [r.S EXCEPT !.ev.add = IF r.ret = PROXY_MAX_EVENTS
                                                               THEN "max_events" ELSE "err"],
                                        c),
                            ret |-> r.ret]
                      ELSE [S |-> [r.S EXCEPT !.ev.add = "added"], ret |-> r.ret]
        ELSE [S |-> S, ret |-> PROXY_SUCCESS]

---------------------------------------------------------------------------
(* proxy.c: accepting.                                                     *)

\* handle_accept's CLEANUP label
handle_accept_cleanup(S, c, err) ==
    LET sfd == S.conns[c].net[SERVER].sock_fd
        S1  == IF sfd # -1
               THEN [close(S, sfd) EXCEPT !.conns[c].net[SERVER].sock_fd = -1] ELSE S
        cfd == S1.conns[c].net[CLIENT].sock_fd
        S2  == IF cfd # -1
               THEN [close(S1, cfd) EXCEPT !.conns[c].net[CLIENT].sock_fd = -1] ELSE S1
    IN  [S |-> S2, ret |-> err]

handle_accept(S, listen_fd, c, o) ==
    LET afd    == lowest_free(S)
        acc_ok == o.accept = "ok" /\ afd # -1
        Sa     == IF acc_ok
                  THEN [S EXCEPT !.fdt[afd] = "sock",
                                 !.conns[c].net[CLIENT].sock_fd = afd,
                                 !.ev.acc = "accepted"]
                  ELSE [S EXCEPT !.errno = IF o.accept = "ok" THEN EMFILE ELSE o.accept,
                                 !.conns[c].net[CLIENT].sock_fd = -1,
                                 !.ev.acc = IF o.accept = "ok" THEN EMFILE ELSE o.accept]
    IN  IF ~acc_ok
        THEN handle_accept_cleanup(Sa, c,
                 IF Sa.errno = ECONNABORTED /\ Sa.errno = EAGAIN /\ Sa.errno = EWOULDBLOCK
                 THEN PROXY_INCOMPLETE_ACCEPT ELSE PROXY_ERR)
        ELSE IF ~o.nonblock_ok
        THEN handle_accept_cleanup([Sa EXCEPT !.errno = EBADF, !.ev.acc = "fcntl_failed"],
                                   c, PROXY_ERR)
        ELSE
        LET sfd     == lowest_free(Sa)
            conn_ok == o.connect # "fail" /\ sfd # -1
            Sc      == IF conn_ok
                       THEN [Sa EXCEPT !.fdt[sfd] = "sock",
                                       !.conns[c].net[SERVER].sock_fd = sfd,
                                       !.errno = IF o.connect = "pending"
                                                 THEN EINPROGRESS ELSE @]
                       ELSE [Sa EXCEPT !.conns[c].net[SERVER].sock_fd = -1,
                                       !.errno = "ECONNREFUSED",
                                       !.ev.acc = "connect_failed"]
        IN  IF ~conn_ok
            THEN handle_accept_cleanup(Sc, c, PROXY_CONNECT_ERR)
            ELSE IF Sc.errno = EINPROGRESS
            THEN WithMgr([Sc EXCEPT !.errno = "0"],
                         event_add(Sc.mgr, sfd, {POLLOUT}, c, "pending_connect_callback"))
            ELSE add_connection_events(Sc, c)

\* the context accept_callback would calloc next: the bound MaxConns is on the
\* contexts ever allocated (0 when it is used up)
next_conn(S) ==
    LET unused == {c \in DOMAIN S.conns : S.conns[c].alloc = "none"}
    IN  IF unused = {} THEN 0 ELSE Min(unused)

accept_callback(S0, listen_fd, revents, config, o) ==
    LET S == [S0 EXCEPT !.ev.cb = "accept_callback"]
        c == next_conn(S)
    IN  IF {POLLERR, POLLHUP, POLLNVAL, POLLOUT} \cap revents # {}
        THEN [S |-> S, ret |-> PROXY_ERR]
        ELSE IF POLLIN \notin revents
        THEN [S |-> S, ret |-> PROXY_SUCCESS]
        ELSE IF ~o.calloc_ok
        THEN [S |-> [S EXCEPT !.ev.acc = "calloc_failed"], ret |-> PROXY_ERR]
        ELSE
        LET S1 == [S EXCEPT !.conns[c] =
                       [ZeroConn EXCEPT !.net[CLIENT].b_encrypted = config.b_encrypt_in,
                                        !.net[SERVER].b_encrypted = config.b_encrypt_out],
                            !.ev.c = c]
            r  == handle_accept(S1, listen_fd, c, o)
        IN  IF r.ret = 0
            THEN r
            ELSE [S   |-> [r.S EXCEPT !.conns[c].alloc = "freed",
                                      !.ev.acc = IF r.ret = PROXY_MAX_EVENTS
                                                 THEN "max_events" ELSE @],
                  ret |-> IF r.ret \in {PROXY_MAX_EVENTS, PROXY_INCOMPLETE_ACCEPT,
                                        PROXY_CONNECT_ERR}
                          THEN PROXY_SUCCESS ELSE r.ret]

---------------------------------------------------------------------------
(* event.c: dispatch and teardown.                                         *)

\* handle_event(idx): the callback of the slot, when the slot is live and ready
handle_event(S, idx, config, o) ==
    LET pfd == S.mgr.pfds[idx]
        eix == get_idx_from_fd(S.mgr, pfd.fd)
        ev  == S.mgr.events[eix]
    IN  IF pfd.fd = -1
        THEN [S |-> S, ret |-> PROXY_SUCCESS]
        ELSE IF eix = -1
        THEN [S |-> S, ret |-> PROXY_ERR]
        ELSE IF pfd.revents = {}
        THEN [S |-> S, ret |-> PROXY_SUCCESS]
        ELSE IF ev.callback = "accept_callback"
        THEN accept_callback(S, ev.fd, pfd.revents, config, o)
        ELSE IF ev.callback = "pending_connect_callback"
        THEN pending_connect_callback(S, ev.fd, pfd.revents, ev.data, o)
        ELSE IF ev.callback = "handshake_callback"
        THEN handshake_callback(S, ev.fd, pfd.revents, ev.data, o)
        ELSE conn_callback(S, ev.fd, pfd.revents, ev.data, o)

\* one iteration of event_teardown's loop
teardown_slot(S, idx, custom_free) ==
    LET ev == S.mgr.events[idx]
        S1 == IF -1 < ev.fd THEN close(S, ev.fd) ELSE S
        S2 == IF custom_free THEN free_connection(S1, ev.data) ELSE S1
    IN  [S2 EXCEPT !.mgr.events[idx] = [fd |-> -1, data |-> NODATA, callback |-> NULL],
                   !.mgr.pfds[idx] = [fd |-> -1, events |-> {}, revents |-> {}]]

RECURSIVE teardown_from(_, _, _)
teardown_from(S, idx, custom_free) ==
    IF idx < S.mgr.max_idx
    THEN teardown_from(teardown_slot(S, idx, custom_free), idx + 1, custom_free)
    ELSE S

event_teardown(S, custom_free) == teardown_from(S, 0, custom_free)

---------------------------------------------------------------------------
(* The inputs of a callback: what each system call it makes returns.       *)

O0 == [calloc_ok |-> TRUE, accept |-> "ok", nonblock_ok |-> TRUE, connect |-> "now",
       so_error |-> "0", create_ok |-> TRUE, wsend |-> "ok", wrecv |-> "ok",
       rk |-> 0, rend |-> [recvd |-> -1, err |-> EAGAIN, what |-> "EAGAIN"],
       sk |-> 0, send |-> [sent |-> -1, err |-> EAGAIN, what |-> "EAGAIN"]]

AcceptOracles ==
    {[O0 EXCEPT !.calloc_ok = FALSE], [O0 EXCEPT !.nonblock_ok = FALSE]}
    \cup {[O0 EXCEPT !.accept = e] : e \in {ECONNABORTED, EAGAIN, EMFILE}}
    \cup {[O0 EXCEPT !.connect = x] : x \in {"now", "pending", "fail"}}

PendingOracles ==
    {[O0 EXCEPT !.so_error = x] : x \in {"0", "ECONNREFUSED", "getsockopt_failed"}}

HandshakeOracles ==
    {[O0 EXCEPT !.create_ok = FALSE]}
    \cup {[O0 EXCEPT !.wsend = x] : x \in {"short", EAGAIN, EPIPE}}
    \cup {[O0 EXCEPT !.wrecv = x] : x \in {"ok", "short", "eof", EAGAIN}}

\* the receive part of conn_callback's input: rk bytes, then how the loop ends
RecvOracles(S, c, side, revents) ==
    LET dst  == Other(side)
        most == Min({BUF_SIZ, StreamLen - S.peer[c][side].rd})
        ends == IF S.conns[c].net[side].b_encrypted THEN NnRecvEnds ELSE RawRecvEnds
    IN  IF POLLIN \notin revents \/ Size(S.conns[c].send_buf[dst]) # 0
        THEN {O0}
        ELSE {[O0 EXCEPT !.rk = k, !.rend = e] : k \in 0..most, e \in ends}

\* the send part: sk bytes, then how the loop ends unless the buffer is drained
SendOracles(S, c, side, revents, o) ==
    LET buf  == S.conns[c].send_buf[side]
        left == Size(buf) - buf.read_pos
        ends == IF S.conns[c].net[side].b_encrypted THEN NnSendEnds ELSE RawSendEnds
    IN  IF POLLOUT \notin revents \/ left <= 0
        THEN {o}
        ELSE {[o EXCEPT !.sk = left]}
             \cup {[o EXCEPT !.sk = k, !.send = e] : k \in 0..(left - 1), e \in ends}

Oracles(S, idx) ==
    LET pfd == S.mgr.pfds[idx]
        ev  == S.mgr.events[idx]
        c   == ev.data
    IN  IF ev.callback = "accept_callback" THEN AcceptOracles
        ELSE IF ev.callback = "pending_connect_callback" THEN PendingOracles
        ELSE IF ev.callback = "handshake_callback" THEN HandshakeOracles
        ELSE IF ev.callback = "conn_callback" /\ c \in DOMAIN S.conns
                /\ side_of(S, c, ev.fd) # NULL
        THEN UNION {SendOracles(S, c, side_of(S, c, ev.fd), pfd.revents, o) :
                        o \in RecvOracles(S, c, side_of(S, c, ev.fd), pfd.revents)}
        ELSE {O0}

---------------------------------------------------------------------------
(* The driver: main, proxy_run, event_run_loop, and the signal handler.    *)

Here == [mgr |-> mgr, conns |-> conns, fdt |-> fdt, errno |-> errno, trap |-> trap,
         peer |-> peer, ev |-> NoEv]

Becomes(S) ==
    /\ mgr' = S.mgr
    /\ conns' = S.conns
    /\ fdt' = S.fdt
    /\ errno' = S.errno
    /\ trap' = S.trap
    /\ peer' = S.peer

Configs == [b_encrypt_in : BOOLEAN, b_encrypt_out : BOOLEAN]

LoopInit(config) ==
    [pc |-> "proxy_run", idx |-> 0, err |-> 0, why |-> "running", server_fd |-> -1,
     b_event_added |-> FALSE, exit |-> -1, config |-> config,
     called |-> {}, fresh |-> {}]

FdtInit == [f \in Fds |-> IF f <= 2 THEN "stdio" ELSE "free"]

FrameIdle == [on |-> FALSE]

CacheIdle == [on |-> FALSE]

Init ==
    /\ mgr = MgrInit
    /\ conns = [c \in ConnIds |-> NoConn]
    /\ fdt = FdtInit
    /\ errno = "0"
    /\ trap = {}
    /\ peer = [c \in ConnIds |-> NoPeer]
    /\ g_run_flag = 1
    /\ loop \in {LoopInit(config) : config \in Configs}
    /\ last = NoEv
    /\ frame = FrameIdle
    /\ cache = CacheIdle

\* proxy_run lines 86-104: the handlers are installed, the listener is created
\* and registered
ProxyRunStart ==
    /\ loop.pc = "proxy_run"
    /\ \E listen_ok \in BOOLEAN :
         LET server_fd == IF listen_ok THEN lowest_free(Here) ELSE -1
             r == event_add(mgr, server_fd, {POLLIN}, CONFIG, "accept_callback")
         IN  IF server_fd = -1
             THEN /\ loop' = [loop EXCEPT !.pc = "cleanup", !.err = PROXY_ERR,
                                          !.why = "listen"]
                  /\ UNCHANGED <<mgr, fdt>>
             ELSE /\ fdt' = [fdt EXCEPT ![server_fd] = "listen"]
                  /\ mgr' = r.m
                  /\ loop' = [loop EXCEPT !.server_fd = server_fd,
                                          !.b_event_added = (r.ret = 0),
                                          !.err = r.ret,
                                          !.pc = IF r.ret = 0 THEN "while" ELSE "cleanup"]
    /\ UNCHANGED <<conns, errno, trap, peer, g_run_flag, last, frame, cache>>

\* event_run_loop line 121: while (1 == *p_run_flag)
LoopWhile ==
    /\ loop.pc = "while"
    /\ loop' = IF g_run_flag = 1
               THEN [loop EXCEPT !.pc = "poll_enter"]
               ELSE [loop EXCEPT !.pc = "cleanup", !.err = PROXY_SUCCESS, !.why = "flag"]
    /\ UNCHANGED <<mgr, conns, fdt, errno, trap, peer, g_run_flag, last, frame, cache>>

\* the flag was read as 1 and poll() is entered: the thread now sleeps in it
PollEnter ==
    /\ loop.pc = "poll_enter"
    /\ loop' = [loop EXCEPT !.pc = "poll_wait"]
    /\ UNCHANGED <<mgr, conns, fdt, errno, trap, peer, g_run_flag, last, frame, cache>>

\* what poll() may report for a live slot
ReadyChoices(pfd) ==
    IF fdt[pfd.fd] = "free"
    THEN {{POLLNVAL}}
    ELSE ((SUBSET pfd.events) \ {{}}) \cup {{POLLHUP}, {POLLERR}}

LiveSlots(m) == {i \in 0..(m.max_idx - 1) : m.pfds[i].fd >= 0}

\* slots poll() may report: the listener is not reported readable once
\* MaxConns contexts were allocated
MayBeReady(i) ==
    \/ mgr.events[i].callback # "accept_callback"
    \/ next_conn(Here) # 0

\* poll() returns a positive count, reporting some of the slots in Cand:
\* revents of every slot below max_idx is rewritten
PollReports(Cand) ==
    /\ loop.pc = "poll_wait"
    /\ \E R \in SUBSET Cand :
         /\ R # {}
         /\ Cardinality(R) <= MaxReady
         /\ \E rev \in [R -> SUBSET {POLLIN, POLLOUT, POLLERR, POLLHUP, POLLNVAL}] :
              /\ \A i \in R : rev[i] \in ReadyChoices(mgr.pfds[i])
              /\ mgr' = [mgr EXCEPT !.pfds =
                           [i \in Slots |->
                              IF i \in R THEN [mgr.pfds[i] EXCEPT !.revents = rev[i]]
                              ELSE IF i < mgr.max_idx
                              THEN [mgr.pfds[i] EXCEPT !.revents = {}]
                              ELSE mgr.pfds[i]]]
    /\ loop' = [loop EXCEPT !.pc = "dispatch", !.idx = 0, !.called = {}, !.fresh = {}]
    /\ UNCHANGED <<conns, fdt, errno, trap, peer, g_run_flag, last, frame, cache>>

PollReturn == PollReports({i \in LiveSlots(mgr) : MayBeReady(i)})

\* the slots the for loop of event_run_loop still has a callback to run for
ReadyFrom(m, from) ==
    {i \in from..(m.max_idx - 1) : m.pfds[i].fd # -1 /\ m.pfds[i].revents # {}}

\* the descriptors of the entries of m1 that event_add put there since m
AddedBetween(m, m1) ==
    {m1.pfds[i].fd : i \in {j \in LiveSlots(m1) :
                               \/ j >= m.max_idx
                               \/ m.pfds[j].fd # m1.pfds[j].fd
                               \/ m.events[j] # m1.events[j]}}

\* event_run_loop lines 130-136: handle_event for the next ready slot (the
\* slots in between run no callback).  loop.called and loop.fresh are the
\* descriptors whose callback ran in this batch and those of the entries added
\* in it.
Dispatch ==
    /\ loop.pc = "dispatch"
    /\ ReadyFrom(mgr, loop.idx) # {}
    /\ \E idx \in {Min(ReadyFrom(mgr, loop.idx))} :
       \E o \in Oracles(Here, idx) :
       \E r \in {handle_event(Here, idx, loop.config, o)} :
       \E m1 \in {r.S.mgr} :
         /\ Becomes(r.S)
         /\ last' = [r.S.ev EXCEPT !.ret = r.ret,
                                   !.dropped = (ReadyFrom(mgr, idx + 1)
                                                   \ ReadyFrom(m1, idx + 1)) # {}]
         /\ loop' = IF r.ret # 0
                    THEN [loop EXCEPT !.pc = "cleanup", !.err = r.ret, !.why = "callback",
                                      !.called = {}, !.fresh = {}]
                    ELSE IF ReadyFrom(m1, idx + 1) = {}
                    THEN [loop EXCEPT !.pc = "while", !.idx = 0,
                                      !.called = {}, !.fresh = {}]
                    ELSE [loop EXCEPT !.idx = idx + 1,
                                      !.called = @ \cup {mgr.pfds[idx].fd},
                                      !.fresh = @ \cup AddedBetween(mgr, m1)]
    /\ UNCHANGED <<g_run_flag, frame, cache>>

\* signal_handler, delivered while the thread is not inside poll()
SignalHandler ==
    /\ loop.pc \in {"while", "poll_enter", "dispatch"}
    /\ g_run_flag' = 0
    /\ UNCHANGED <<mgr, conns, fdt, errno, trap, peer, loop, last, frame, cache>>

\* signal_handler, delivered while the thread sleeps in poll(): poll() returns
\* -1 with EINTR and event_run_loop returns PROXY_ERR (lines 124-127)
SignalInPoll ==
    /\ loop.pc = "poll_wait"
    /\ g_run_flag' = 0
    /\ errno' = EINTR
    /\ loop' = [loop EXCEPT !.pc = "cleanup", !.err = PROXY_ERR, !.why = "poll"]
    /\ UNCHANGED <<mgr, conns, fdt, trap, peer, last, frame, cache>>

\* proxy_run's CLEANUP label and main's return
ProxyRunCleanup ==
    /\ loop.pc = "cleanup"
    /\ LET S1 == IF loop.b_event_added
                 THEN [Here EXCEPT !.mgr = event_remove(mgr, loop.server_fd).m]
                 ELSE Here
           S2 == IF loop.server_fd # -1 THEN close(S1, loop.server_fd) ELSE S1
       IN  Becomes(event_teardown(S2, TRUE))
    /\ loop' = [loop EXCEPT !.pc = "exited",
                            !.exit = IF loop.err # 0 THEN EXIT_FAILURE ELSE EXIT_SUCCESS]
    /\ UNCHANGED <<g_run_flag, last, frame, cache>>

Next ==
    \/ ProxyRunStart
    \/ LoopWhile
    \/ PollEnter
    \/ PollReturn
    \/ Dispatch
    \/ SignalHandler
    \/ SignalInPoll
    \/ ProxyRunCleanup

Spec == Init /\ [][Next]_vars

---------------------------------------------------------------------------
(* The proxy with MaxAccepts clients whose peers stay silent: poll()       *)
(* reports the listener, pending connects and handshakes, never an         *)
(* endpoint that is forwarding.  The registry fills up here.               *)

AcceptIds == 1..MaxAccepts

AcceptFds == 0..(3 + 2 * MaxAccepts)

InitAccept ==
    /\ mgr = MgrInit
    /\ conns = [c \in AcceptIds |-> NoConn]
    /\ fdt = [f \in AcceptFds |-> IF f <= 2 THEN "stdio" ELSE "free"]
    /\ errno = "0"
    /\ trap = {}
    /\ peer = [c \in AcceptIds |-> NoPeer]
    /\ g_run_flag = 1
    /\ loop \in {LoopInit(config) : config \in Configs}
    /\ last = NoEv
    /\ frame = FrameIdle
    /\ cache = CacheIdle

PollReturnSilent ==
    PollReports({i \in LiveSlots(mgr) :
                    MayBeReady(i) /\ mgr.events[i].callback # "conn_callback"})

NextAccept ==
    \/ ProxyRunStart
    \/ LoopWhile
    \/ PollEnter
    \/ PollReturnSilent
    \/ Dispatch
    \/ SignalHandler
    \/ SignalInPoll
    \/ ProxyRunCleanup

SpecAccept == InitAccept /\ [][NextAccept]_vars

\* C11: when accept_callback's registration of the new connection fails with
\* PROXY_MAX_EVENTS, both sockets of the connection are closed, no registry
\* entry carries the context, the context is freed, and the callback returns
\* success.
C11_FullRegistryDropsAccept ==
    (last.cb = "accept_callback" /\ last.acc = "max_events")
        => /\ fdt[conns[last.c].net[CLIENT].sock_fd] = "free"
           /\ fdt[conns[last.c].net[SERVER].sock_fd] = "free"
           /\ \A i \in Slots : mgr.events[i].data # last.c
           /\ conns[last.c].alloc = "freed"
           /\ last.ret = PROXY_SUCCESS

---------------------------------------------------------------------------
(* Properties of the proxy under Spec.  last is what the callback that ran *)
(* most recently did and returned.                                         *)

IsPrefix(a, b) == Len(a) <= Len(b) /\ a = SubSeq(b, 1, Len(a))

Plain == ~loop.config.b_encrypt_in /\ ~loop.config.b_encrypt_out

\* C1: when the forwarding receive on an encrypted endpoint ends with an
\* authentication error, the connection is closed and conn_callback returns
\* success to the event loop.
C1_CryptoErrClosesConnectionOnly ==
    (last.cb = "conn_callback" /\ last.rx = "NN_CRYPTO_ERR")
        => (last.closed /\ last.ret = PROXY_SUCCESS)

\* endpoint a of c reached end-of-stream with bytes received and was closed,
\* the opposite endpoint is still open
HalfClosed(c, a) ==
    /\ conns[c].alloc = "live"
    /\ conns[c].net[a].sock_fd = -1
    /\ conns[c].net[Other(a)].sock_fd # -1

\* C2: after endpoint a reached end-of-stream, a callback that finds the
\* opposite endpoint readable, receives from it without error and attempts no
\* send closes the opposite endpoint only if every byte read from a was
\* written to it.
C2_FlushedBeforeOppositeClosed ==
    [][\A c \in ConnIds, a \in Sides :
         (/\ HalfClosed(c, a)
          /\ loop.pc = "dispatch"
          /\ last'.cb = "conn_callback" /\ last'.c = c /\ last'.side = Other(a)
          /\ last'.rx \in {"full", "EAGAIN", "NN_WOULD_BLOCK"}
          /\ last'.tx = NULL
          /\ conns'[c].net[Other(a)].sock_fd = -1)
         => Len(peer'[c][Other(a)].wr) = peer'[c][a].rd]_vars

\* C4: when the loop returned because of a signal (no callback failed), the
\* process exit code is 0.
C4_SignalExitIsSuccess ==
    (loop.pc = "exited" /\ g_run_flag = 0 /\ loop.why \in {"flag", "poll"})
        => loop.exit = EXIT_SUCCESS

\* C5: once the run flag is cleared the loop is not suspended in the
\* readiness wait, from which it returns only to dispatch a further batch.
C5_NoWaitAfterSignal ==
    ~(g_run_flag = 0 /\ loop.pc = "poll_wait")

\* C6: with neither side encrypted, the bytes written to an endpoint are a
\* prefix of the bytes read from the opposite endpoint.
C6_WrittenIsPrefixOfRead ==
    Plain => \A c \in ConnIds, s \in Sides :
                 IsPrefix(peer[c][s].wr, SubSeq(Stream, 1, peer[c][Other(s)].rd))

\* a send stopped by would-block part way through the buffer
C6_Witness ==
    /\ Plain
    /\ \E c \in ConnIds, s \in Sides :
         /\ conns[c].alloc = "live"
         /\ conns[c].send_buf[s].read_pos = 1
         /\ Size(conns[c].send_buf[s]) = 2
         /\ peer[c][s].wr = <<1>>
         /\ last.tx = "EAGAIN"

\* C8: a failure in the handshake phase closes the connection and
\* handshake_callback returns zero.
C8_HandshakeFailureIsNotFatal ==
    (last.cb = "handshake_callback" /\ last.hs \notin {NULL, "ok"})
        => (last.closed /\ last.ret = 0)

\* C9: the handshake does not fail because the peer's public key has not yet
\* arrived: the connection stays open and handshake_callback returns zero.
C9_HandshakeWaitsForPeerKey ==
    (last.cb = "handshake_callback" /\ last.hs = "recv_EAGAIN")
        => (~last.closed /\ last.ret = 0)

\* C10: when accept fails with ECONNABORTED, EAGAIN or EWOULDBLOCK,
\* accept_callback returns success.
C10_TransientAcceptIsNotFatal ==
    (last.cb = "accept_callback" /\ last.acc \in {ECONNABORTED, EAGAIN, EWOULDBLOCK})
        => last.ret = PROXY_SUCCESS

---------------------------------------------------------------------------
(* netnacl.c: the framed stream, one sender and one receiver joined by a   *)
(* byte stream.  frame.wire is every byte the sender's socket accepted,    *)
(* frame.arrived how many of them reached the receiver's socket and        *)
(* frame.consumed how many its recv calls took.                            *)

\* MAX_MESSAGE_LEN, scaled from 4096
MAX_MESSAGE_LEN == 2

\* the longest plaintext sent
MaxPlain == 3

\* the longest length a caller of netnacl_recv requests
MaxReq == 3

\* sizeof(hdr_t): the two bytes of len and the nonce, scaled from 2 + 24
HDR_SIZE == 3

\* crypto_box_ZEROBYTES, the zero bytes in front of a plaintext, scaled from 32
crypto_box_ZEROBYTES == 2

\* crypto_box_BOXZEROBYTES, the zero bytes in front of a ciphertext, scaled
\* from 16; the authenticator fills the rest of the crypto_box_ZEROBYTES
crypto_box_BOXZEROBYTES == 1

Nonces == {1, 2}

RECV_CAP == crypto_box_ZEROBYTES + MAX_MESSAGE_LEN

Zeros(n) == [i \in 1..n |-> 0]

\* htons and ntohs on a little-endian host: the two bytes of a uint16_t swapped
htons(v) == (v % 256) * 256 + (v \div 256)

ntohs(v) == htons(v)

\* the bytes of a uint16_t in memory, lowest address first
MemBytes16(v) == <<v % 256, v \div 256>>

\* crypto_box_afternm on the plaintext pt padded with crypto_box_ZEROBYTES
\* zero bytes: crypto_box_BOXZEROBYTES zero bytes, the authenticator of the
\* nonce, then each byte under the nonce
crypto_box_afternm(pt, n) ==
    Zeros(crypto_box_BOXZEROBYTES)
        \o [i \in 1..(crypto_box_ZEROBYTES - crypto_box_BOXZEROBYTES) |-> 100 + 10 * n]
        \o [i \in 1..Len(pt) |-> 100 + 10 * n + pt[i]]

\* crypto_box_open_afternm on the first clen bytes of c: -1 unless they are an
\* authenticator and bytes made under nonce n; m is the padded plaintext
crypto_box_open_afternm(c, clen, n) ==
    IF \/ clen < crypto_box_ZEROBYTES
       \/ clen > Len(c)
       \/ \E i \in (crypto_box_BOXZEROBYTES + 1)..crypto_box_ZEROBYTES : c[i] # 100 + 10 * n
       \/ \E i \in (crypto_box_ZEROBYTES + 1)..clen : c[i] \div 10 # 10 + n \/ c[i] % 10 = 0
    THEN [ret |-> -1, m |-> <<>>]
    ELSE [ret |-> 0,
          m |-> Zeros(crypto_box_ZEROBYTES)
                  \o [i \in 1..(clen - crypto_box_ZEROBYTES) |-> c[i + crypto_box_ZEROBYTES] % 10]]

\* a netnacl_t as calloc leaves it
NnInit ==
    [hdr_bytes_recvd |-> 0, ct_bytes_recvd |-> 0,
     recv_ct |-> Zeros(RECV_CAP), recv_pt |-> Zeros(RECV_CAP),
     recv_pt_pos |-> 0, recv_pt_len |-> 0,
     send_buf_len |-> 0, send_buf_pos |-> 0, send_buf |-> <<>>,
     recv_hdr |-> [len |-> 0, nonce |-> 0],
     stray |-> FALSE, crashed |-> FALSE]

\* encrypt_plaintext framing all len bytes, without the MIN
encrypt_plaintext_whole(nn, buf, len, nonce) ==
    LET hdr_len  == len + crypto_box_ZEROBYTES
        send_hdr == MemBytes16(htons(hdr_len)) \o <<nonce>>
    IN  [nn EXCEPT !.send_buf_len = hdr_len + HDR_SIZE,
                   !.send_buf = send_hdr \o crypto_box_afternm(SubSeq(buf, 1, len), nonce)]

\* encrypt_plaintext counting the zero bytes of the ciphertext, not of the
\* plaintext, into the length
encrypt_plaintext_boxzero(nn, buf, len, nonce) ==
    LET pt_len   == Min({len, MAX_MESSAGE_LEN})
        hdr_len  == pt_len + crypto_box_BOXZEROBYTES
        send_hdr == MemBytes16(htons(hdr_len)) \o <<nonce>>
    IN  [nn EXCEPT !.send_buf_len = hdr_len + HDR_SIZE,
                   !.send_buf = send_hdr \o crypto_box_afternm(SubSeq(buf, 1, pt_len), nonce)]

\* encrypt_plaintext: the frame of the first MIN(len, MAX_MESSAGE_LEN) bytes of buf
encrypt_plaintext(nn, buf, len, nonce) ==
    LET pt_len   == Min({len, MAX_MESSAGE_LEN})
        hdr_len  == pt_len + crypto_box_ZEROBYTES
        send_hdr == MemBytes16(htons(hdr_len)) \o <<nonce>>
    IN  [nn EXCEPT !.send_buf_len = hdr_len + HDR_SIZE,
                   !.send_buf = send_hdr \o crypto_box_afternm(SubSeq(buf, 1, pt_len), nonce)]

\* send_ciphertext: the socket accepts k more bytes before it would block
send_ciphertext(nn, len, k) ==
    LET n == Min({k, nn.send_buf_len - nn.send_buf_pos})
        out == SubSeq(nn.send_buf, nn.send_buf_pos + 1, nn.send_buf_pos + n)
    IN  IF nn.send_buf_pos + n >= nn.send_buf_len
        THEN [nn |-> [nn EXCEPT !.send_buf = <<>>, !.send_buf_len = 0, !.send_buf_pos = 0],
              wire |-> out, ret |-> Min({len, MAX_MESSAGE_LEN})]
        ELSE [nn |-> [nn EXCEPT !.send_buf_pos = @ + n], wire |-> out, ret |-> NN_WOULD_BLOCK]

\* netnacl_send encrypting on every call, pending message or not
netnacl_send_reencrypts(nn, buf, len, nonce, k) ==
    LET nn1  == encrypt_plaintext(nn, buf, len, nonce)
        r    == IF nn1.send_buf_pos < nn1.send_buf_len
                THEN send_ciphertext(nn1, len, k)
                ELSE [nn |-> nn1, wire |-> <<>>, ret |-> 0]
    IN  [nn |-> r.nn, wire |-> r.wire, ret |-> r.ret, drew |-> TRUE]

\* netnacl_send; drew tells whether this call ran encrypt_plaintext
netnacl_send(nn, buf, len, nonce, k) ==
    LET drew == nn.send_buf_len = 0
        nn1  == IF drew THEN encrypt_plaintext(nn, buf, len, nonce) ELSE nn
        r    == IF nn1.send_buf_pos < nn1.send_buf_len
                THEN send_ciphertext(nn1, len, k)
                ELSE [nn |-> nn1, wire |-> <<>>, ret |-> 0]
    IN  [nn |-> r.nn, wire |-> r.wire, ret |-> r.ret, drew |-> drew]

\* a hdr_t as the bytes it occupies and back (packed: len, then nonce)
hdr_mem(h) == MemBytes16(h.len) \o <<h.nonce>>

hdr_of(mem) == [len |-> mem[1] + 256 * mem[2], nonce |-> mem[3]]

\* what the build makes of a write outside the object: the process dies, or
\* the bytes land elsewhere
UbOutcomes == {"crash", "stray"}

OutOfBounds(nn, ub) == [nn EXCEPT !.stray = TRUE, !.crashed = (ub = "crash")]

\* recv_hdr with the bytes avail in the socket: recv stores at
\* &p_nn->recv_hdr + hdr_bytes_recvd, which is hdr_bytes_recvd whole hdr_t
\* further, so only a first recv stores into recv_hdr
recv_hdr(nn, avail, ub) ==
    LET k   == Min({HDR_SIZE - nn.hdr_bytes_recvd, Len(avail)})
        old == hdr_mem(nn.recv_hdr)
        mem == [i \in 1..HDR_SIZE |-> IF i <= k THEN avail[i] ELSE old[i]]
        nn1 == IF k = 0 THEN nn
               ELSE IF nn.hdr_bytes_recvd = 0
               THEN [nn EXCEPT !.recv_hdr = hdr_of(mem), !.hdr_bytes_recvd = k]
               ELSE [OutOfBounds(nn, ub) EXCEPT !.hdr_bytes_recvd = @ + k]
    IN  IF nn1.hdr_bytes_recvd < HDR_SIZE
        THEN [nn |-> nn1, used |-> k, ret |-> NN_WOULD_BLOCK]
        ELSE [nn |-> [nn1 EXCEPT !.recv_hdr.len = ntohs(@)], used |-> k, ret |-> NN_SUCCESS]

\* recv_ciphertext with the bytes avail in the socket
recv_ciphertext(nn, avail, ub) ==
    LET k   == Min({nn.recv_hdr.len - nn.ct_bytes_recvd, Len(avail)})
        at  == nn.ct_bytes_recvd
        ct  == [i \in 1..RECV_CAP |-> IF i > at /\ i <= at + k THEN avail[i - at]
                                      ELSE nn.recv_ct[i]]
        nn0 == IF at + k > RECV_CAP THEN OutOfBounds(nn, ub) ELSE nn
        nn1 == [nn0 EXCEPT !.recv_ct = ct, !.ct_bytes_recvd = at + k]
    IN  [nn |-> nn1, used |-> k,
         ret |-> IF at + k < nn.recv_hdr.len THEN NN_WOULD_BLOCK ELSE NN_SUCCESS]

decrypt_ciphertext(nn) ==
    LET r   == crypto_box_open_afternm(nn.recv_ct, nn.recv_hdr.len, nn.recv_hdr.nonce)
        n   == nn.recv_hdr.len - crypto_box_ZEROBYTES
        m   == [i \in 1..RECV_CAP |-> IF i <= Len(r.m) THEN r.m[i] ELSE nn.recv_pt[i]]
        pt  == [i \in 1..RECV_CAP |-> IF i <= n THEN m[i + crypto_box_ZEROBYTES] ELSE m[i]]
    IN  IF r.ret # 0
        THEN [nn |-> nn, ret |-> NN_CRYPTO_ERR]
        ELSE [nn |-> [nn EXCEPT !.recv_pt = pt, !.recv_pt_len = n], ret |-> NN_SUCCESS]

\* copy_plaintext_to_buffer: ASSERT_RET aborts the process unless NDEBUG is
\* defined, and then returns -1
copy_plaintext_to_buffer(nn, len, ndebug) ==
    LET read_sz == Min({nn.recv_pt_len, len})
        pos     == nn.recv_pt_pos
        data    == [i \in 1..read_sz |-> IF pos + i <= RECV_CAP THEN nn.recv_pt[pos + i]
                                         ELSE 0]
        nn1     == [nn EXCEPT !.recv_pt_pos = pos + read_sz]
    IN  IF nn1.recv_pt_pos > nn1.recv_pt_len
        THEN [nn |-> IF ndebug THEN nn1 ELSE [nn1 EXCEPT !.crashed = TRUE],
              ret |-> -1, data |-> <<>>]
        ELSE IF nn1.recv_pt_pos = nn1.recv_pt_len
        THEN [nn |-> [nn1 EXCEPT !.recv_hdr = [len |-> 0, nonce |-> 0],
                                 !.recv_pt = Zeros(RECV_CAP), !.recv_ct = Zeros(RECV_CAP),
                                 !.recv_pt_len = 0, !.recv_pt_pos = 0,
                                 !.hdr_bytes_recvd = 0, !.ct_bytes_recvd = 0],
              ret |-> read_sz, data |-> data]
        ELSE [nn |-> nn1, ret |-> read_sz, data |-> data]

\* the header and ciphertext are in and not yet decrypted, or decrypted
FrameIn(nn) == nn.hdr_bytes_recvd = HDR_SIZE /\ nn.ct_bytes_recvd = nn.recv_hdr.len

netnacl_recv(nn, len, avail, ub, ndebug) ==
    LET r1 == IF nn.hdr_bytes_recvd < HDR_SIZE
              THEN recv_hdr(nn, avail, ub)
              ELSE [nn |-> nn, used |-> 0, ret |-> 0]
        a2 == SubSeq(avail, r1.used + 1, Len(avail))
        r2 == IF r1.nn.hdr_bytes_recvd = HDR_SIZE
                 /\ r1.nn.ct_bytes_recvd < r1.nn.recv_hdr.len
              THEN recv_ciphertext(r1.nn, a2, ub)
              ELSE [nn |-> r1.nn, used |-> 0, ret |-> 0]
        used == r1.used + r2.used
        r3 == IF FrameIn(r2.nn) /\ r2.nn.recv_pt_len = 0
              THEN decrypt_ciphertext(r2.nn)
              ELSE [nn |-> r2.nn, ret |-> 0]
        r4 == IF FrameIn(r3.nn) /\ 0 < r3.nn.recv_pt_len
              THEN copy_plaintext_to_buffer(r3.nn, len, ndebug)
              ELSE [nn |-> r3.nn, ret |-> 0, data |-> <<>>]
    IN  IF r1.ret # 0 THEN [nn |-> r1.nn, used |-> r1.used, ret |-> r1.ret, data |-> <<>>]
        ELSE IF r2.ret # 0 THEN [nn |-> r2.nn, used |-> used, ret |-> r2.ret, data |-> <<>>]
        ELSE IF r3.ret # 0 THEN [nn |-> r3.nn, used |-> used, ret |-> r3.ret, data |-> <<>>]
        ELSE [nn |-> r4.nn, used |-> used, ret |-> r4.ret, data |-> r4.data]

---------------------------------------------------------------------------
(* The framed stream as a system: a caller sends the plaintext P with      *)
(* netnacl_send, the bytes travel, a caller drains them with netnacl_recv. *)

FrameStart(n) ==
    [on |-> TRUE, P |-> [i \in 1..n |-> i], sent_pos |-> 0, call_len |-> 0,
     tx |-> NnInit, rx |-> NnInit, wire |-> <<>>, arrived |-> 0, consumed |-> 0,
     fstart |-> 0, out |-> <<>>, rx_ret |-> 0,
     msg |-> [at |-> 0, len |-> 0, start |-> 0],
     call |-> [len |-> 0, ret |-> 0, pending |-> FALSE, drew |-> FALSE]]

InitFrame ==
    /\ mgr = MgrInit
    /\ conns = [c \in ConnIds |-> NoConn]
    /\ fdt = FdtInit
    /\ errno = "0"
    /\ trap = {}
    /\ peer = [c \in ConnIds |-> NoPeer]
    /\ g_run_flag = 1
    /\ loop = LoopInit([b_encrypt_in |-> TRUE, b_encrypt_out |-> TRUE])
    /\ last = NoEv
    /\ frame \in {FrameStart(n) : n \in 1..MaxPlain}
    /\ cache = CacheIdle

\* one netnacl_send call on what is left of P with a length out of Lens.
\* frame.msg records the message encrypted last (where in P it starts, the
\* length its call was given, where on the wire it starts) and frame.call the
\* call made last (its length and result, whether a message was pending when
\* it was made, whether it encrypted).
FrameCall(Lens) ==
    /\ frame.on
    /\ frame.sent_pos < Len(frame.P)
    /\ \E len \in Lens,
          nonce \in (IF frame.tx.send_buf_len = 0 THEN Nonces ELSE {1}),
          k \in 0..(HDR_SIZE + RECV_CAP) :
         \E r \in {netnacl_send(frame.tx, SubSeq(frame.P, frame.sent_pos + 1, Len(frame.P)),
                                len, nonce, k)} :
            frame' = [frame EXCEPT
                        !.tx = r.nn,
                        !.wire = @ \o r.wire,
                        !.sent_pos = IF r.ret > 0 THEN @ + r.ret ELSE @,
                        !.call_len = IF r.ret > 0 THEN 0 ELSE len,
                        !.msg = IF r.drew
                                THEN [at |-> frame.sent_pos, len |-> len,
                                      start |-> Len(frame.wire)]
                                ELSE @,
                        !.call = [len |-> len, ret |-> r.ret,
                                  pending |-> frame.tx.send_buf_pos < frame.tx.send_buf_len,
                                  drew |-> r.drew]]
    /\ UNCHANGED <<mgr, conns, fdt, errno, trap, peer, g_run_flag, loop, last, cache>>

\* a caller as buf_send is: a new call with any length up to what is left of
\* P, or the retry, with the same length, of the call that would have blocked
FrameSend ==
    FrameCall(IF frame.call_len # 0 THEN {frame.call_len}
              ELSE 1..(Len(frame.P) - frame.sent_pos))

\* more of the bytes in flight reach the receiver's socket
FrameArrive ==
    /\ frame.on
    /\ frame.arrived < Len(frame.wire)
    /\ \E n \in (frame.arrived + 1)..Len(frame.wire) :
         frame' = [frame EXCEPT !.arrived = n]
    /\ UNCHANGED <<mgr, conns, fdt, errno, trap, peer, g_run_flag, loop, last, cache>>

\* one netnacl_recv call with a requested length; a caller stops draining
\* when a call fails
FrameRecv ==
    /\ frame.on
    /\ ~frame.rx.crashed
    /\ frame.rx_ret \notin {NN_ERR, NN_CRYPTO_ERR}
    /\ \E len \in 1..MaxReq, ub \in UbOutcomes, ndebug \in BOOLEAN :
         \E r \in {netnacl_recv(frame.rx, len,
                                SubSeq(frame.wire, frame.consumed + 1, frame.arrived),
                                ub, ndebug)} :
            frame' = [frame EXCEPT
                        !.rx = r.nn,
                        !.consumed = @ + r.used,
                        !.fstart = IF r.nn.hdr_bytes_recvd = 0
                                   THEN frame.consumed + r.used ELSE @,
                        !.out = @ \o r.data,
                        !.rx_ret = r.ret]
    /\ UNCHANGED <<mgr, conns, fdt, errno, trap, peer, g_run_flag, loop, last, cache>>

NextFrame ==
    \/ FrameSend
    \/ FrameArrive
    \/ FrameRecv

SpecFrame == InitFrame /\ [][NextFrame]_vars

---------------------------------------------------------------------------
(* Properties of the framed stream under SpecFrame.                        *)

\* everything of P was sent, and the receiver took and handed out all of it
FrameDrained ==
    /\ frame.sent_pos = Len(frame.P)
    /\ frame.consumed = Len(frame.wire)
    /\ frame.rx.hdr_bytes_recvd = 0

\* C3: while every header arrived in one piece, the bytes netnacl_recv
\* returned are a prefix of P for any requested lengths, no call of it fails
\* or ends the process, and they equal P once the stream is drained.
C3_FramingRoundTrip ==
    (frame.on /\ ~frame.rx.stray)
        => /\ IsPrefix(frame.out, frame.P)
           /\ ~frame.rx.crashed
           /\ frame.rx_ret # -1
           /\ (FrameDrained => frame.out = frame.P)

\* the header of the frame being received, as the sender put it on the wire
WireHdr ==
    [len   |-> frame.wire[frame.fstart + 1] * 256 + frame.wire[frame.fstart + 2],
     nonce |-> frame.wire[frame.fstart + 3]]

\* C7: however the bytes of a frame are split over netnacl_recv calls, the
\* header, once complete, is the header sent and the ciphertext bytes received
\* so far are the ciphertext sent, at the same offsets.
C7_SplitFrameReassembled ==
    (frame.on /\ ~frame.rx.crashed)
        => /\ (frame.rx.hdr_bytes_recvd = HDR_SIZE => frame.rx.recv_hdr = WireHdr)
           /\ \A i \in 1..frame.rx.ct_bytes_recvd :
                 frame.rx.recv_ct[i] = frame.wire[frame.fstart + HDR_SIZE + i]

\* C16: while the receiving process lives, the header bytes received are at
\* most sizeof(hdr_t), the ciphertext bytes received at most the declared
\* length, and the plaintext offset at most the plaintext length, after any
\* netnacl_recv calls with any requested lengths.
C16_ReceiveSideBounds ==
    (frame.on /\ ~frame.rx.crashed)
        => /\ frame.rx.hdr_bytes_recvd <= HDR_SIZE
           /\ frame.rx.ct_bytes_recvd <= frame.rx.recv_hdr.len
           /\ frame.rx.recv_pt_pos <= frame.rx.recv_pt_len

---------------------------------------------------------------------------
(* The receiver of a framed stream whose peer puts one frame of its own    *)
(* making on the wire: a header declaring any length and that many bytes   *)
(* made under the key.                                                     *)

\* how far past the ciphertext buffer the declared lengths go
MaxOver == 2

DeclaredLens == 0..(RECV_CAP + MaxOver)

ForgedFrame(n, nonce) ==
    MemBytes16(htons(n)) \o <<nonce>>
        \o SubSeq(crypto_box_afternm([i \in 1..(RECV_CAP + MaxOver) |-> 1], nonce), 1, n)

InitForged ==
    /\ mgr = MgrInit
    /\ conns = [c \in ConnIds |-> NoConn]
    /\ fdt = FdtInit
    /\ errno = "0"
    /\ trap = {}
    /\ peer = [c \in ConnIds |-> NoPeer]
    /\ g_run_flag = 1
    /\ loop = LoopInit([b_encrypt_in |-> TRUE, b_encrypt_out |-> TRUE])
    /\ last = NoEv
    /\ frame \in {[FrameStart(0) EXCEPT !.wire = ForgedFrame(n, nonce)] :
                     n \in DeclaredLens, nonce \in Nonces}
    /\ cache = CacheIdle

NextForged ==
    \/ FrameArrive
    \/ FrameRecv

SpecForged == InitForged /\ [][NextForged]_vars

\* the length the header on the wire declares
Declared == frame.wire[1] * 256 + frame.wire[2]

\* C17: once the header of a frame whose declared length is larger than the
\* ciphertext buffer or smaller than crypto_box_ZEROBYTES is in, no more
\* ciphertext bytes are stored than recv_ct holds, and the netnacl_recv call
\* that took the last byte of the frame returned NN_ERR or NN_CRYPTO_ERR.
C17_InvalidLengthIsAnError ==
    (/\ frame.on
     /\ frame.consumed >= HDR_SIZE
     /\ (Declared > RECV_CAP \/ Declared < crypto_box_ZEROBYTES))
        => /\ frame.rx.ct_bytes_recvd <= RECV_CAP
           /\ (frame.consumed = Len(frame.wire)
                   => frame.rx_ret \in {NN_ERR, NN_CRYPTO_ERR})

---------------------------------------------------------------------------
(* Contexts, descriptors and registry entries over the whole run.          *)

\* C12: no context is freed twice (free_connection and the callbacks never
\* get a context that was freed), and once proxy_run has returned every
\* context that was allocated has been freed.
C12_ContextFreedExactlyOnce ==
    /\ "use_after_free" \notin trap
    /\ loop.pc = "exited" => \A c \in DOMAIN conns : conns[c].alloc # "live"

\* C13: no close() is given a descriptor that is not open, and once
\* proxy_run has returned neither the listener nor any accepted or upstream
\* socket is still open.
C13_DescriptorsClosedOnce ==
    /\ "close_EBADF" \notin trap
    /\ loop.pc = "exited" => \A f \in DOMAIN fdt : fdt[f] \notin {"listen", "sock"}

\* the registry entries whose user data is the context c
EntriesOf(c) == {i \in LiveSlots(mgr) : mgr.events[i].data = c}

\* C14: while the event loop runs, between callbacks, the reference count of
\* every live context is the number of registry entries that carry it.
C14_RefCountsEntries ==
    loop.pc \in {"while", "poll_enter", "poll_wait", "dispatch"}
        => \A c \in DOMAIN conns :
               conns[c].alloc = "live" => conns[c].ref = Cardinality(EntriesOf(c))

\* C15: both directional buffers of every connection keep
\* 0 <= read_pos <= size <= BUF_SIZ, whatever the endpoints' encryption and
\* however far each buf_recv and buf_send call got.
C15_BufferBounds ==
    \A c \in DOMAIN conns, s \in Sides :
        /\ 0 <= conns[c].send_buf[s].read_pos
        /\ conns[c].send_buf[s].read_pos <= Size(conns[c].send_buf[s])
        /\ Size(conns[c].send_buf[s]) <= BUF_SIZ

\* a buf_send on an encrypted endpoint stopped part way through a buffer that
\* a buf_recv had filled
C15_Witness ==
    /\ last.cb = "conn_callback"
    /\ last.tx \in {"NN_WOULD_BLOCK", "EAGAIN"}
    /\ \E c \in DOMAIN conns, s \in Sides :
         /\ conns[c].alloc = "live"
         /\ conns[c].net[s].b_encrypted
         /\ Size(conns[c].send_buf[s]) = BUF_SIZ
         /\ 0 < conns[c].send_buf[s].read_pos
         /\ conns[c].send_buf[s].read_pos < BUF_SIZ

\* a batch of one callback: poll() reported an endpoint readable whose
\* destination buffer is non-empty, and the callback returned with the
\* registry, the connections, the descriptors and the peers as they were
IdleBatch ==
    /\ loop.pc = "dispatch"
    /\ loop.called = {}
    /\ loop'.pc = "while"
    /\ last'.cb = "conn_callback"
    /\ last'.side # NULL
    /\ POLLIN \in mgr.pfds[Min(ReadyFrom(mgr, loop.idx))].revents
    /\ Size(conns[last'.c].send_buf[Other(last'.side)]) # 0
    /\ mgr' = mgr
    /\ conns' = conns
    /\ fdt' = fdt
    /\ peer' = peer

\* C18: while the buffer bound for an endpoint is non-empty, the event loop
\* runs no batch that consists of the source endpoint's readable callback
\* alone and changes nothing: the source's readiness does not wake the loop.
C18_NoIdleBatchUnderBackpressure == [][~IdleBatch]_vars

\* the descriptor of the slot whose callback the loop runs next in this batch
NextCalled == mgr.pfds[Min(ReadyFrom(mgr, loop.idx))].fd

\* C19: in a readiness batch no callback runs for a descriptor whose callback
\* already ran in the batch, nor for an entry that was added or re-added
\* during the batch.
C19_OncePerBatch ==
    loop.pc = "dispatch"
        => /\ NextCalled \notin loop.called
           /\ NextCalled \notin loop.fresh

\* a callback ran and added entries, one of them in a slot the loop has yet
\* to pass, and a callback is still to run in the batch
C19_Witness ==
    /\ loop.pc = "dispatch"
    /\ loop.called # {}
    /\ \E i \in LiveSlots(mgr) : i >= loop.idx /\ mgr.pfds[i].fd \in loop.fresh

\* the slots that hold an entry: event_add stored a callback there and
\* neither event_remove nor event_teardown has cleared it since
EntrySlots == {i \in Slots : mgr.events[i].callback # NULL}

\* C20: num_events is the number of slots that hold an entry, and every such
\* slot lies below max_idx, after any calls of event_add, event_modify,
\* event_remove and event_teardown.
C20_NumEventsCountsEntries ==
    /\ mgr.num_events = Cardinality(EntrySlots)
    /\ \A i \in EntrySlots : i < mgr.max_idx /\ mgr.pfds[i].fd >= 0

---------------------------------------------------------------------------
(* The registry under any caller: event_add, event_modify, event_remove    *)
(* and event_teardown in any order on a few open descriptors.  last is the *)
(* call made most recently, with the registry as it was before the call.   *)

\* descriptors the caller registers
MaxRegFds == 3

RegFds == 3..(2 + MaxRegFds)

RegCall(op, fd, ret) == [op |-> op, fd |-> fd, ret |-> ret, before |-> mgr]

InitRegistry ==
    /\ mgr = MgrInit
    /\ conns = [c \in ConnIds |-> NoConn]
    /\ fdt = [f \in 0..(2 + MaxRegFds) |-> IF f <= 2 THEN "stdio" ELSE "sock"]
    /\ errno = "0"
    /\ trap = {}
    /\ peer = [c \in ConnIds |-> NoPeer]
    /\ g_run_flag = 1
    /\ loop = LoopInit([b_encrypt_in |-> FALSE, b_encrypt_out |-> FALSE])
    /\ last = [op |-> NULL, fd |-> -1, ret |-> 0, before |-> MgrInit]
    /\ frame = FrameIdle
    /\ cache = CacheIdle

RegAdd ==
    /\ \E fd \in RegFds, events \in {{POLLIN}, {POLLOUT}} :
       \E r \in {event_add(mgr, fd, events, NODATA, "conn_callback")} :
         /\ last' = RegCall("event_add", fd, r.ret)
         /\ mgr' = r.m
    /\ UNCHANGED <<conns, fdt, errno, trap, peer, g_run_flag, loop, frame, cache>>

RegModify ==
    /\ \E fd \in RegFds, events \in {{POLLIN}, {POLLIN, POLLOUT}} :
       \E r \in {event_modify(mgr, fd, events)} :
         /\ last' = RegCall("event_modify", fd, r.ret)
         /\ mgr' = r.m
    /\ UNCHANGED <<conns, fdt, errno, trap, peer, g_run_flag, loop, frame, cache>>

RegRemove ==
    /\ \E fd \in RegFds :
       \E r \in {event_remove(mgr, fd)} :
         /\ last' = RegCall("event_remove", fd, r.ret)
         /\ mgr' = r.m
    /\ UNCHANGED <<conns, fdt, errno, trap, peer, g_run_flag, loop, frame, cache>>

\* event_teardown(NULL)
RegTeardown ==
    /\ \E S \in {event_teardown(Here, FALSE)} :
         /\ Becomes(S)
         /\ last' = RegCall("event_teardown", -1, 0)
    /\ UNCHANGED <<g_run_flag, loop, frame, cache>>

NextRegistry ==
    \/ RegAdd
    \/ RegModify
    \/ RegRemove
    \/ RegTeardown

SpecRegistry == InitRegistry /\ [][NextRegistry]_vars

\* the call made last was event_add on a descriptor that had an entry
AddedRegistered ==
    /\ last.op = "event_add"
    /\ \E i \in Slots : /\ last.before.events[i].callback # NULL
                         /\ last.before.pfds[i].fd = last.fd

\* C21: no two entries hold the same descriptor, and an event_add on a
\* descriptor that has an entry fails and leaves the registry as it was.
C21_OneEntryPerDescriptor ==
    /\ \A i, j \in EntrySlots : mgr.pfds[i].fd = mgr.pfds[j].fd => i = j
    /\ AddedRegistered => (last.ret # PROXY_SUCCESS /\ mgr = last.before)

\* event_add was refused for a descriptor registered in a slot above a hole,
\* where a second entry would have gone
C21_Witness ==
    /\ AddedRegistered
    /\ \E i, j \in 0..(mgr.max_idx - 1) :
         i < j /\ mgr.pfds[i].fd = -1 /\ mgr.pfds[j].fd = last.fd

---------------------------------------------------------------------------
(* The sending side of the framed stream.                                  *)

\* what is on the wire of the message encrypted last
MsgWire == SubSeq(frame.wire, frame.msg.start + 1, Len(frame.wire))

\* the length field of that message, read big-endian off the wire
MsgLenField == MsgWire[1] * 256 + MsgWire[2]

\* the frame of the n plaintext bytes of P from offset at, under a nonce
FrameOf(at, n, nonce) ==
    <<(n + crypto_box_ZEROBYTES) \div 256, (n + crypto_box_ZEROBYTES) % 256, nonce>>
        \o crypto_box_afternm(SubSeq(frame.P, at + 1, at + n), nonce)

\* C22: a netnacl_send call given more than MAX_MESSAGE_LEN bytes while no
\* message is pending frames the first MAX_MESSAGE_LEN bytes and nothing more:
\* what reaches the wire is a prefix of that one frame; when the message is
\* fully written the call returned MAX_MESSAGE_LEN and the whole frame is on
\* the wire, the rest of the bytes being left to a later call.
C22_LongSendFramesFirstMax ==
    (frame.on /\ frame.msg.len > MAX_MESSAGE_LEN)
        => /\ \E nonce \in Nonces :
                 IsPrefix(MsgWire, FrameOf(frame.msg.at, MAX_MESSAGE_LEN, nonce))
           /\ frame.tx.send_buf_len = 0
                 => /\ frame.call.ret = MAX_MESSAGE_LEN
                    /\ Len(MsgWire) = HDR_SIZE + crypto_box_ZEROBYTES + MAX_MESSAGE_LEN
                    /\ frame.sent_pos = frame.msg.at + MAX_MESSAGE_LEN
                    /\ frame.sent_pos < Len(frame.P)

C22_Witness ==
    /\ frame.on
    /\ frame.msg.len > MAX_MESSAGE_LEN
    /\ frame.call.pending
    /\ frame.call.ret = MAX_MESSAGE_LEN

\* the last netnacl_send call wrote the last byte of a message
MsgComplete == frame.on /\ frame.call.ret > 0

\* C23 as amended: the length field of a message carrying n plaintext bytes
\* is n + crypto_box_ZEROBYTES (n + 32 in the program), the message on the
\* wire is the header and that many bytes, and a plaintext of exactly
\* MAX_MESSAGE_LEN bytes is sent as one message.
C23_LengthFieldIsPlainPlusZeroBytes ==
    MsgComplete
        => /\ MsgLenField = frame.call.ret + crypto_box_ZEROBYTES
           /\ Len(MsgWire) = HDR_SIZE + MsgLenField
           /\ MsgWire = FrameOf(frame.msg.at, frame.call.ret, MsgWire[HDR_SIZE])
           /\ (frame.msg.len = MAX_MESSAGE_LEN => frame.call.ret = MAX_MESSAGE_LEN)

C23_Witness ==
    /\ MsgComplete
    /\ frame.msg.len = MAX_MESSAGE_LEN
    /\ frame.sent_pos = Len(frame.P)

\* C23 as stated: the length field of a message carrying n plaintext bytes is
\* n + 16, the 16 being crypto_box_BOXZEROBYTES.
C23_LengthFieldIsPlainPlus16 ==
    MsgComplete => MsgLenField = frame.call.ret + crypto_box_BOXZEROBYTES

\* a step in which netnacl_send ran and did something
SendStep == <<frame.tx, frame.wire, frame.call>>' # <<frame.tx, frame.wire, frame.call>>

\* C24: a netnacl_send call made while send_buf_pos < send_buf_len does not
\* run encrypt_plaintext: it draws no nonce, the pending buffer keeps its
\* bytes until the message is written, and the bytes it puts on the wire are
\* the next bytes of that buffer.
C24_OneMessageInFlight ==
    [][(frame.on /\ SendStep /\ frame.tx.send_buf_pos < frame.tx.send_buf_len)
          => /\ ~frame'.call.drew
             /\ frame'.msg = frame.msg
             /\ (frame'.tx.send_buf = frame.tx.send_buf \/ frame'.tx.send_buf_len = 0)
             /\ \E n \in 0..(frame.tx.send_buf_len - frame.tx.send_buf_pos) :
                   frame'.wire = frame.wire
                       \o SubSeq(frame.tx.send_buf, frame.tx.send_buf_pos + 1,
                                  frame.tx.send_buf_pos + n)]_vars

C24_Witness ==
    /\ frame.on
    /\ frame.call.pending
    /\ ~frame.call.drew
    /\ frame.tx.send_buf_pos > HDR_SIZE
    /\ frame.tx.send_buf_pos < frame.tx.send_buf_len

---------------------------------------------------------------------------
(* The sending side with a caller that, after a would-block, calls         *)
(* netnacl_send again with any length.                                     *)

FrameResend == FrameCall(1..(Len(frame.P) - frame.sent_pos))

NextResend ==
    \/ FrameResend
    \/ FrameArrive

SpecResend == InitFrame /\ [][NextResend]_vars

\* C27: a netnacl_send call made while a message is pending does not encrypt,
\* and the call that writes the last byte of the message returns the number
\* of plaintext bytes the message carries, whatever length it was given.
C27_ResumedSendReturnsCaptured ==
    (frame.on /\ frame.call.pending)
        => /\ ~frame.call.drew
           /\ frame.call.ret > 0
                 => frame.call.ret = MsgLenField - crypto_box_ZEROBYTES

---------------------------------------------------------------------------
(* The run of SpecAccept with one more caller of close_connection: a       *)
(* the callback whose close_connection has just closed both endpoints of   *)
(* its context calls close_connection on that context again.               *)

CloseAgain ==
    /\ loop.pc # "exited"
    /\ last.closed
    /\ \E c \in DOMAIN conns :
         /\ last.c = c
         /\ conns[c].alloc # "none"
         /\ \A s \in Sides : conns[c].net[s].sock_fd = -1
         /\ \E S \in {close_connection(Here, c)} :
              /\ Becomes(S)
              /\ last' = [S.ev EXCEPT !.cb = "close_connection", !.c = c]
    /\ UNCHANGED <<g_run_flag, loop, frame, cache>>

NextTeardown ==
    \/ NextAccept
    \/ CloseAgain

SpecTeardown == InitAccept /\ [][NextTeardown]_vars

\* C25: close_connection on a context whose two endpoints are already closed
\* changes nothing: no descriptor is closed, no registry entry is removed, no
\* field of a context is written and no memory is freed a second time.
C25_TeardownIdempotent ==
    [][CloseAgain => UNCHANGED <<mgr, conns, fdt, trap>>]_vars

---------------------------------------------------------------------------
(* Interest of the forwarding endpoints, under Spec.                       *)

\* the slots that hold the open endpoint side of context c under conn_callback
ForwardingSlots(c, side) ==
    {i \in EntrySlots : /\ conns[c].alloc = "live"
                        /\ conns[c].net[side].sock_fd # -1
                        /\ mgr.pfds[i].fd = conns[c].net[side].sock_fd
                        /\ mgr.events[i].callback = "conn_callback"
                        /\ mgr.events[i].data = c}

\* C26: between callbacks an open endpoint registered under conn_callback
\* has POLLOUT in its events exactly when the buffer of data destined to it
\* is not empty.
C26_WritableIffBuffered ==
    \A c \in DOMAIN conns : \A side \in Sides : \A i \in ForwardingSlots(c, side) :
        (POLLOUT \in mgr.pfds[i].events) <=> (Size(conns[c].send_buf[side]) # 0)

\* a partial send: some of the buffer went out, the rest still waits with
\* POLLOUT set on its destination
C26_Witness ==
    \E c \in DOMAIN conns : \E side \in Sides : \E i \in ForwardingSlots(c, side) :
        /\ last.cb = "conn_callback"
        /\ last.c = c
        /\ conns[c].send_buf[side].read_pos > 0
        /\ POLLOUT \in mgr.pfds[i].events

---------------------------------------------------------------------------
(* A pending connect that completes while the registry is full, under      *)
(* SpecAccept.                                                             *)

\* C28: when a pending connect has completed and add_connection_events
\* failed with PROXY_MAX_EVENTS, the connection is torn down (both sockets
\* closed, no entry left, the context freed) and pending_connect_callback
\* returns zero.
C28_FullRegistryDropsPendingConnect ==
    (last.cb = "pending_connect_callback" /\ last.add = "max_events")
        => /\ last.closed
           /\ \A s \in Sides : conns[last.c].net[s].sock_fd = -1
           /\ \A i \in Slots : mgr.events[i].data # last.c
           /\ conns[last.c].alloc = "freed"
           /\ last.ret = PROXY_SUCCESS

---------------------------------------------------------------------------
(* Forwarding and the handshake, under Spec.                               *)

\* the encrypted endpoint side of context c is registered under handshake_callback
Handshaking(c, side) ==
    /\ conns[c].alloc = "live"
    /\ conns[c].net[side].b_encrypted
    /\ \E i \in EntrySlots : /\ mgr.pfds[i].fd = conns[c].net[side].sock_fd
                             /\ mgr.events[i].callback = "handshake_callback"

\* C30 as stated: while an encrypted endpoint is still handshaking, no byte
\* received from the other, plaintext endpoint is in the buffer destined to it.
C30_NoReceiveBeforeBothHandshakes ==
    \A c \in DOMAIN conns : \A side \in Sides :
        (Handshaking(c, side) /\ ~conns[c].net[Other(side)].b_encrypted)
            => Size(conns[c].send_buf[side]) = 0

\* C30 as amended: an endpoint is under conn_callback only once it is itself
\* past the handshake (a plaintext endpoint at once), and while an endpoint
\* is still handshaking nothing was received from it and nothing was sent to
\* it: what the other endpoint delivered waits in the buffer.
C30_ForwardingAfterOwnHandshake ==
    \A c \in DOMAIN conns : \A side \in Sides :
        /\ (ForwardingSlots(c, side) # {} /\ conns[c].net[side].b_encrypted)
              => conns[c].net[side].netnacl # NULL
        /\ Handshaking(c, side)
              => /\ ForwardingSlots(c, side) = {}
                 /\ peer[c][side].rd = 0
                 /\ peer[c][side].wr = <<>>

\* a handshake that has just completed with bytes already waiting for its
\* endpoint, now registered for writing under conn_callback
C30_Witness ==
    \E c \in DOMAIN conns : \E side \in Sides : \E i \in ForwardingSlots(c, side) :
        /\ last.cb = "handshake_callback"
        /\ last.hs = "ok"
        /\ conns[c].net[side].b_encrypted
        /\ ~conns[c].net[Other(side)].b_encrypted
        /\ Size(conns[c].send_buf[side]) > 0
        /\ mgr.pfds[i].events = {POLLOUT}

---------------------------------------------------------------------------
(* The end of a half-closed connection, under Spec.                        *)

\* the slot whose callback the for loop of event_run_loop runs next
NextSlot == Min(ReadyFrom(mgr, loop.idx))

\* the step is a callback run for the open endpoint of c, whose endpoint a is
\* closed
RemainingDispatched(c, a) ==
    /\ loop.pc = "dispatch"
    /\ loop' # loop
    /\ HalfClosed(c, a)
    /\ ReadyFrom(mgr, loop.idx) # {}
    /\ mgr.pfds[NextSlot].fd = conns[c].net[Other(a)].sock_fd

\* both endpoints of c are closed, their descriptors released, and the context
\* is freed
ClosedAndFreed(c) ==
    /\ conns[c].alloc = "freed"
    /\ \A s \in Sides : conns[c].net[s].sock_fd = -1

\* the open endpoint of c is still registered for writability
StillPollsOut(c, a) ==
    \E i \in LiveSlots(mgr) :
        /\ mgr.pfds[i].fd = conns[c].net[Other(a)].sock_fd
        /\ POLLOUT \in mgr.pfds[i].events

\* the callback that sent the last buffered byte found the opposite endpoint closed
DrainCompleted(c) ==
    /\ last.cb = "conn_callback"
    /\ last.c = c
    /\ last.tx = "sent"
    /\ conns[c].net[Other(last.side)].sock_fd = -1

\* C29: a callback run for the remaining endpoint of a half-closed connection
\* ends with both endpoints closed and the context freed whenever the endpoint
\* reported an error or hang-up or the callback sent the last buffered byte;
\* any other such callback either closes and frees the connection too or
\* leaves it half-closed with the remaining endpoint still registered for
\* writability, so that the next report of writability or of an error runs
\* such a callback again.
C29_HalfClosedEndsFreed ==
    [][\A c \in DOMAIN conns, a \in Sides :
          RemainingDispatched(c, a)
             => \/ ClosedAndFreed(c)'
                \/ /\ mgr.pfds[NextSlot].revents \cap {POLLERR, POLLHUP} = {}
                   /\ last'.tx # "sent"
                   /\ HalfClosed(c, a)'
                   /\ Size(conns'[c].send_buf[Other(a)]) > 0
                   /\ StillPollsOut(c, a)']_vars

\* the callback that completed the drain of a half-closed connection closed
\* the remaining endpoint and freed the context
C29_Witness ==
    \E c \in DOMAIN conns :
        /\ DrainCompleted(c)
        /\ last.closed
        /\ ClosedAndFreed(c)

---------------------------------------------------------------------------
(* network.c: the cached server address, under SpecCache.  The clock is    *)
(* CLOCK_MONOTONIC in whole seconds; 300 seconds are scaled to             *)
(* TIME_SINCE_LAST_RESOLUTION_SEC ticks.  cache.resolved_at (when the      *)
(* cached address list was resolved) and cache.call (the last call: when,  *)
(* what the cache held before it, what was tried in which order, what it   *)
(* returned) are ghosts.                                                   *)

\* scaled from 300
TIME_SINCE_LAST_RESOLUTION_SEC == 2

\* the clock stops here
MaxNow == 8

\* the descriptor connect_to_server returns when a candidate connects
SOCK_FD == 5

CacheStart ==
    [on |-> TRUE, gp_cached_server_address |-> NULL, gts_last_resolution |-> 0,
     now |-> 1, resolved_at |-> 0,
     call |-> [at |-> 0, had |-> FALSE, had_at |-> 0, tried |-> <<>>, ret |-> 0]]

\* what getaddrinfo and the connects of one call do
CacheOracles ==
    [cached_ok : BOOLEAN, gai : {"ok", "fail", "empty"}, fresh_ok : BOOLEAN]

\* network_connect_to_server lines 81-85: the expiry test
expire_cached(C) ==
    IF /\ C.gts_last_resolution # 0
       /\ (C.now - C.gts_last_resolution) > TIME_SINCE_LAST_RESOLUTION_SEC
    THEN [C EXCEPT !.gp_cached_server_address = NULL]
    ELSE C

\* network_connect_to_server lines 100-128: resolve and connect
resolve_and_connect(C, o) ==
    IF o.gai # "ok"
    THEN [C |-> C, ret |-> -1]
    ELSE LET C1 == [C EXCEPT !.call.tried = Append(@, "fresh")]
         IN  IF o.fresh_ok
             THEN [C |-> [C1 EXCEPT !.gp_cached_server_address = "addrinfo",
                                    !.resolved_at = C.now],
                   ret |-> SOCK_FD]
             ELSE [C |-> C1, ret |-> -1]

\* network_connect_to_server
network_connect_to_server(C0, o) ==
    LET C  == [C0 EXCEPT !.call = [at |-> C0.now,
                                   had |-> C0.gp_cached_server_address # NULL,
                                   had_at |-> C0.resolved_at,
                                   tried |-> <<>>, ret |-> 0]]
        C1 == expire_cached(C)
    IN  IF C1.gp_cached_server_address # NULL
        THEN LET C2 == [C1 EXCEPT !.call.tried = Append(@, "cached")]
             IN  IF o.cached_ok
                 THEN [C |-> [C2 EXCEPT !.gts_last_resolution = C2.now], ret |-> SOCK_FD]
                 ELSE resolve_and_connect([C2 EXCEPT !.gp_cached_server_address = NULL], o)
        ELSE resolve_and_connect(C1, o)

\* one upstream connect
CacheConnect ==
    /\ \E o \in CacheOracles :
       \E r \in {network_connect_to_server(cache, o)} :
         cache' = [r.C EXCEPT !.call.ret = r.ret]
    /\ UNCHANGED <<mgr, conns, fdt, errno, trap, peer, g_run_flag, loop, last, frame>>

\* a second passes
CacheTick ==
    /\ cache.now < MaxNow
    /\ cache' = [cache EXCEPT !.now = @ + 1]
    /\ UNCHANGED <<mgr, conns, fdt, errno, trap, peer, g_run_flag, loop, last, frame>>

InitCache ==
    /\ mgr = MgrInit
    /\ conns = [c \in ConnIds |-> NoConn]
    /\ fdt = FdtInit
    /\ errno = "0"
    /\ trap = {}
    /\ peer = [c \in ConnIds |-> NoPeer]
    /\ g_run_flag = 1
    /\ loop = LoopInit([b_encrypt_in |-> FALSE, b_encrypt_out |-> FALSE])
    /\ last = NoEv
    /\ frame = FrameIdle
    /\ cache = CacheStart

NextCache ==
    \/ CacheConnect
    \/ CacheTick

SpecCache == InitCache /\ [][NextCache]_vars

\* the last call found a resolution cached that was made no more than
\* TIME_SINCE_LAST_RESOLUTION_SEC before it
CalledWithin ==
    /\ cache.call.at # 0
    /\ cache.call.had
    /\ cache.call.at - cache.call.had_at <= TIME_SINCE_LAST_RESOLUTION_SEC

\* the last call found a resolution cached that was made more than
\* TIME_SINCE_LAST_RESOLUTION_SEC before it
CalledAfter ==
    /\ cache.call.at # 0
    /\ cache.call.had
    /\ cache.call.at - cache.call.had_at > TIME_SINCE_LAST_RESOLUTION_SEC

TriedCachedFirst == cache.call.tried # <<>> /\ cache.call.tried[1] = "cached"

\* C31: a connect issued within the life time of the cached resolution tries
\* it first; one issued later does not try it; a cached address whose connect
\* failed is not kept; a fresh resolution whose connect succeeded is cached
\* with the time of this call as its time of resolution.
C31_CacheLivesFor300s ==
    /\ CalledWithin => TriedCachedFirst
    /\ CalledAfter => ~TriedCachedFirst
    /\ (TriedCachedFirst /\ cache.call.ret = -1) => cache.gp_cached_server_address = NULL
    /\ (cache.call.tried # <<>> /\ cache.call.tried[Len(cache.call.tried)] = "fresh"
          /\ cache.call.ret # -1)
         => /\ cache.gp_cached_server_address # NULL
            /\ cache.resolved_at = cache.call.at

---------------------------------------------------------------------------
(* Encrypted endpoints and the framing layer, under Spec.                  *)

\* the endpoint of a live registry slot under conn_callback
SlotSide(i) == side_of(Here, mgr.events[i].data, mgr.pfds[i].fd)

\* C32: every encrypted endpoint registered under the forwarding callback has
\* its framed-stream state (its handshake completed), and buf_send and
\* buf_recv were never given an encrypted endpoint whose framed-stream state
\* is absent.
C32_FramedStatePresent ==
    /\ \A i \in LiveSlots(mgr) :
          (/\ mgr.events[i].callback = "conn_callback"
           /\ mgr.events[i].data \in DOMAIN conns
           /\ conns[mgr.events[i].data].alloc = "live"
           /\ SlotSide(i) # NULL
           /\ conns[mgr.events[i].data].net[SlotSide(i)].b_encrypted)
             => conns[mgr.events[i].data].net[SlotSide(i)].netnacl # NULL
    /\ "assert_netnacl_recv" \notin trap
    /\ "assert_netnacl_send" \notin trap

---------------------------------------------------------------------------
(* Freed contexts and the registry, under Spec.                            *)

\* C33: no callback was ever given a context that is not allocated, and no
\* registry entry holds one: the entries of a context are gone when it is
\* freed.
C33_NoEntryOfFreedContext ==
    /\ "use_after_free" \notin trap
    /\ \A i \in LiveSlots(mgr) :
          mgr.events[i].data \in DOMAIN conns
             => conns[mgr.events[i].data].alloc = "live"

\* a callback closed and freed its connection in the middle of a batch in
\* which a later slot had been reported ready too; that slot is not run and
\* the loop goes on
C33_Witness ==
    /\ last.closed
    /\ last.ret = 0
    /\ last.dropped
    /\ last.c \in DOMAIN conns
    /\ conns[last.c].alloc = "freed"
    /\ loop.pc # "exited"

---------------------------------------------------------------------------
(* The cleanup of a failed accept, under Spec.                             *)

\* the step is an accept_callback run whose accept() failed
AcceptFailedStep ==
    /\ loop.pc = "dispatch"
    /\ loop' # loop
    /\ last'.cb = "accept_callback"
    /\ last'.acc \notin {NULL, "accepted", "fcntl_failed", "connect_failed"}

\* C34: an accept_callback run whose accept() fails closes no descriptor: the
\* descriptor table is the same after it as before.
C34_FailedAcceptClosesNothing ==
    [][AcceptFailedStep => fdt' = fdt]_vars

---------------------------------------------------------------------------
(* Errors of the framing layer in the buffer operations, under Spec.       *)

\* C35: when netnacl_recv returned NN_CRYPTO_ERR or NN_ERR to buf_recv, or
\* netnacl_send returned NN_ERR to buf_send, the buffer operation returned
\* neither would-block nor success.
C35_FramingErrorIsFatal ==
    /\ (last.cb = "conn_callback" /\ last.rx \in {"NN_CRYPTO_ERR", "NN_ERR"})
          => last.rxret \notin {"PROXY_WOULD_BLOCK", "PROXY_SUCCESS"}
    /\ (last.cb = "conn_callback" /\ last.tx \in {"NN_ERR", "NN_ERR_EPIPE"})
          => last.txret \notin {"PROXY_WOULD_BLOCK", "PROXY_SUCCESS"}

---------------------------------------------------------------------------
(* A message without plaintext, under SpecForged: the peer's frame         *)
(* declares crypto_box_ZEROBYTES bytes, the authenticator of an empty      *)
(* plaintext, and they are made under the key.                             *)

\* the frame on the wire is an authentic message of zero plaintext bytes, and
\* netnacl_recv calls have taken all of it
EmptyMessageTaken ==
    /\ frame.on
    /\ Declared = crypto_box_ZEROBYTES
    /\ frame.consumed = Len(frame.wire)

\* C36: the netnacl_recv call that took the last byte of an authentic message
\* of zero plaintext bytes did not return 0 (which is what the caller reads as
\* end-of-stream), and the receive state is ready for the next message.
C36_EmptyMessageIsNotDisconnect ==
    EmptyMessageTaken
       => /\ frame.rx_ret # 0
          /\ frame.rx.hdr_bytes_recvd = 0

---------------------------------------------------------------------------
(* The preconditions of the buffer operations, under Spec.                 *)

\* C37: no buf_send call found its buffer empty or fully sent, and no
\* buf_recv call found its buffer holding data or a read position.
C37_BufferPreconditionsHold ==
    /\ "assert_buf_send" \notin trap
    /\ "assert_buf_recv" \notin trap

\* one callback ran both buffer operations on its endpoint (readable and
\* writable in one report) while the connection stayed open
C37_Witness ==
    /\ last.cb = "conn_callback"
    /\ last.rxret # NULL
    /\ last.txret # NULL
    /\ ~last.closed
    /\ "assert_buf_send" \notin trap
    /\ "assert_buf_recv" \notin trap

---------------------------------------------------------------------------
(* The registry at capacity, under SpecCapacity: a caller adds and removes *)
(* one descriptor more than the registry takes.  last is the call made     *)
(* last, as under SpecRegistry.                                            *)

\* descriptors the caller registers: MAX_EVENTS + 1 of them
CapFds == 3..(3 + MAX_EVENTS)

CapAdd ==
    /\ \E fd \in CapFds :
       \E r \in {event_add(mgr, fd, {POLLIN}, NODATA, "conn_callback")} :
         /\ last' = RegCall("event_add", fd, r.ret)
         /\ mgr' = r.m
    /\ UNCHANGED <<conns, fdt, errno, trap, peer, g_run_flag, loop, frame, cache>>

CapRemove ==
    /\ \E fd \in CapFds :
       \E r \in {event_remove(mgr, fd)} :
         /\ last' = RegCall("event_remove", fd, r.ret)
         /\ mgr' = r.m
    /\ UNCHANGED <<conns, fdt, errno, trap, peer, g_run_flag, loop, frame, cache>>

NextCapacity ==
    \/ CapAdd
    \/ CapRemove

SpecCapacity == InitRegistry /\ [][NextCapacity]_vars

\* C38: max_idx never exceeds MAX_EVENTS, and an event_add that succeeded
\* stored its entry in a slot below max_idx.
C38_MaxIdxWithinCapacity ==
    /\ mgr.max_idx <= MAX_EVENTS
    /\ (last.op = "event_add" /\ last.ret = PROXY_SUCCESS)
          => \E i \in 0..(MAX_EVENTS - 1) :
                /\ i < mgr.max_idx
                /\ mgr.pfds[i].fd = last.fd
                /\ mgr.events[i].fd = last.fd

\* with max_idx at MAX_EVENTS and a hole left by a removal, event_add took the
\* hole and max_idx stayed
C38_Witness ==
    /\ last.op = "event_add"
    /\ last.ret = PROXY_SUCCESS
    /\ last.before.max_idx = MAX_EVENTS
    /\ last.before.num_events < MAX_EVENTS
    /\ mgr.max_idx = MAX_EVENTS
    /\ mgr.num_events = MAX_EVENTS

====
